---- MODULE Spec2Model ----
\* Video thumbnail cache and generation pipeline of localpics (thumbnails.go):
\* GetOrCreateThumbnail callers, the counting semaphore, the RWMutex around the
\* in-memory map, the periodic cache saver and PreGenerateThumbnails.
EXTENDS Integers, Sequences, FiniteSets, TLC

\* ------------------------------------------------------------------ bounds
\* Goroutines that may be inside GetOrCreateThumbnail at once (more than
\* MaxConcurrent, so that the semaphore is contended).
NumWorkers == 3
\* What the environment does in one run: calls of GetOrCreateThumbnail by
\* callers other than the pre-generation, ticks of the saver's ticker, and
\* thumbnail files removed from outside.
MaxCalls == 2
MaxTicks == 1
MaxDeletes == 1

\* ------------------------------------------------------- program constants
MaxConcurrent == 2
DefaultSeek == 30
MinSeek == 30

WorkerNames == <<"g1", "g2", "g3", "g4">>
Workers == {WorkerNames[i] : i \in 1..NumWorkers}
\* Every call of startCacheSaver starts a goroutine with a ticker of its own.
Savers == {"saver", "saver2"}
Flushers == Savers \cup {"pregen"}
\* "init" is the goroutine that calls InitThumbnails.
Procs == Workers \cup Flushers \cup {"init"}

\* -------------------------------------------------------------- the videos
\* The input directory: two byte-identical videos under different names and
\* modification times, and a third, different one. "gone.mp4" does not exist.
InputDir ==
  [v \in {"a.mp4", "b.mp4", "c.mp4"} |->
     CASE v = "a.mp4" -> [Size |-> 10, ModTime |-> 1, Header |-> "x"]
       [] v = "b.mp4" -> [Size |-> 10, ModTime |-> 2, Header |-> "x"]
       [] OTHER       -> [Size |-> 20, ModTime |-> 1, Header |-> "y"]]

\* The paths callers other than the pre-generation ask for; b.mp4 is on the
\* first page of videos.
VideoPaths == {"a.mp4", "c.mp4", "gone.mp4"}

\* md5 of the header bytes, as an injective function of the bytes read.
HeaderDigest(bytes) == <<"md5", bytes>>

\* What os.Stat, os.Open and io.ReadFull find at a path: whether the file is
\* there, its size and modification time, its first min(1 MiB, Size) bytes,
\* and how the read goes: "ok", "open" (os.Open fails) or "short" (ReadFull
\* does not get Size bytes).
FileAt(videoPath) ==
  IF videoPath \in DOMAIN InputDir
  THEN [Exists |-> TRUE, Size |-> InputDir[videoPath].Size,
        ModTime |-> InputDir[videoPath].ModTime,
        Header |-> InputDir[videoPath].Header, Read |-> "ok"]
  ELSE [Exists |-> FALSE, Size |-> 0, ModTime |-> 0, Header |-> "", Read |-> "ok"]

SignatureFailsOnRead(f) ==
  [err |-> ~f.Exists \/ (f.Size > 0 /\ f.Read # "ok"),
   Size |-> IF f.Exists THEN f.Size ELSE 0,
   ModTime |-> IF f.Exists THEN f.ModTime ELSE 0,
   HeaderHash |-> IF f.Exists /\ f.Size > 0 /\ f.Read = "ok"
                  THEN HeaderDigest(f.Header) ELSE <<>>]

\* Lines 501-534 on the file found at the path.
Signature(f) ==
  IF ~f.Exists
  THEN [err |-> TRUE, Size |-> 0, ModTime |-> 0, HeaderHash |-> <<>>]
  ELSE [err |-> FALSE, Size |-> f.Size, ModTime |-> f.ModTime,
        HeaderHash |-> IF f.Size > 0 /\ f.Read = "ok"
                       THEN HeaderDigest(f.Header) ELSE <<>>]

GetVideoSignature(videoPath) == Signature(FileAt(videoPath))

HashWithModTime(sig) == <<sig.Size, sig.HeaderHash, sig.ModTime>>
\* md5 of "%d-%s" of (Size, HeaderHash): injective in that pair, blind to ModTime.
GetSignatureHash(sig) == <<sig.Size, sig.HeaderHash>>

Hashes == {GetSignatureHash(GetVideoSignature(v)) : v \in DOMAIN InputDir}

\* filepath.Join(ThumbnailConfig.CacheDir, sigHash + ".jpg")
ThumbPath(h) == <<"thumbnails", h>>
\* A path an earlier run stored in cache.json when the cache directory was
\* reached under another name.
OldPath(h) == <<"old", h>>
OldHashes == {GetSignatureHash(GetVideoSignature("a.mp4"))}
Paths == {ThumbPath(h) : h \in Hashes} \cup {OldPath(h) : h \in OldHashes}
NoPath == <<>>

VARIABLES
  ThumbnailEnabled,     \* the global flag
  ThumbnailCache,       \* map sigHash -> path
  thumbnailChanged,     \* the dirty flag
  ThumbnailSemaphore,   \* number of tokens in the buffered channel
  ThumbnailCacheMutex,  \* [readers: set of holders, writer: holder or "none"]
  files,                \* path -> "absent" | "partial" | "complete"
  cacheJson,            \* cache.json: [state: "none"|"unreadable"|"malformed"|"torn"|"ok", text]
  pc,                   \* position of every goroutine
  video,                \* worker: videoPath argument
  cachedPath,           \* worker: [exists, path] read from the map
  seekTime,             \* worker: seek offset in tenths of a second
  res,                  \* worker: [err, path, via] returned
  gen,                  \* worker: how far generation went: "no" | "slot" | "ffmpeg"
  task,                 \* worker: launched by PreGenerateThumbnails
  data,                 \* flusher: serialized snapshot of the map
  firstPage,            \* content of video_1.json
  PreGenerate,          \* ThumbnailConfig.PreGenerate
  idx,                  \* PreGenerateThumbnails: loop position
  processed,            \* PreGenerateThumbnails: attempts launched
  budget,               \* calls, ticks and deletions the environment may still make
  unsaved,              \* history: a put happened since the last written flush
  tampered,             \* history: workers whose thumbnail was deleted mid-call
  last,                 \* history: the call that returned most recently, and the
                        \* map and the dirty flag as the current call started
  calc                  \* an application of a pure function: its inputs and result

vars == <<ThumbnailEnabled, ThumbnailCache, thumbnailChanged, ThumbnailSemaphore,
          ThumbnailCacheMutex, files, cacheJson, pc, video, cachedPath, seekTime,
          res, gen, task, data, firstPage, PreGenerate, idx, processed,
          budget, unsaved, tampered, last, calc>>

sharedVars == <<ThumbnailEnabled, ThumbnailCache, thumbnailChanged,
                ThumbnailSemaphore, ThumbnailCacheMutex, files, cacheJson, unsaved>>
workerVars == <<video, cachedPath, seekTime, res, gen, task>>
flusherVars == <<data>>
pregenVars == <<firstPage, PreGenerate, idx, processed>>

EmptyMap == [h \in {} |-> NoPath]
PutAlone(m, h, p) == [k \in {h} |-> p]
Put(m, h, p) == [k \in DOMAIN m \cup {h} |-> IF k = h THEN p ELSE m[k]]

NoResult == [err |-> "", path |-> NoPath, via |-> ""]
OkNoPath(p, how) == [err |-> "", path |-> NoPath, via |-> how]
Ok(p, how) == [err |-> "", path |-> p, via |-> how]
Err(e) == [err |-> e, path |-> NoPath, via |-> ""]
NoCached == [exists |-> FALSE, path |-> NoPath]

sigHash(w) == GetSignatureHash(GetVideoSignature(video[w]))
thumbnailPath(w) == ThumbPath(sigHash(w))

\* ------------------------------------------------------------ sync.RWMutex
CanRLock == ThumbnailCacheMutex.writer = "none"
CanLock == ThumbnailCacheMutex.writer = "none" /\ ThumbnailCacheMutex.readers = {}
RLock(m, p) == [m EXCEPT !.readers = @ \cup {p}]
RUnlockForgotten(m, p) == m
RUnlock(m, p) == [m EXCEPT !.readers = @ \ {p}]
Lock(m, p) == [m EXCEPT !.writer = p]
Unlock(m, p) == [m EXCEPT !.writer = "none"]

\* ------------------------------------------- the buffered channel of slots
\* ThumbnailSemaphore <- struct{}{} blocks while the channel is full.
CanAcquireAlways == TRUE
CanAcquire == ThumbnailSemaphore < MaxConcurrent
\* defer func() { <-ThumbnailSemaphore }() runs on every return.
ReleaseOnSuccessOnly(tokens, failed) == IF failed THEN tokens ELSE tokens - 1
DeferredRelease(tokens, failed) == tokens - 1

\* ---------------------------------------------------- GetOrCreateThumbnail
\* Goroutines are interchangeable: a new call runs on the first one that is
\* not inside a call.
FreeIndexes == {i \in 1..NumWorkers : pc[WorkerNames[i]] \in {"idle", "done"}}
FirstFree ==
  IF FreeIndexes = {} THEN "nobody"
  ELSE WorkerNames[CHOOSE i \in FreeIndexes : \A j \in FreeIndexes : i <= j]

\* Lines 838-839: every launch of the pre-generation is a goroutine of its
\* own, counted by the WaitGroup until it returns; it keeps its record.
FirstFreeTask ==
  IF \A i \in FreeIndexes : task[WorkerNames[i]] THEN "nobody"
  ELSE WorkerNames[CHOOSE i \in FreeIndexes :
         /\ ~task[WorkerNames[i]]
         /\ \A j \in FreeIndexes : ~task[WorkerNames[j]] => i <= j]

EnterResultSignatureFirst(enabled, v) ==
  IF GetVideoSignature(v).err THEN Err("signature")
  ELSE IF ~enabled THEN Err("disabled")
  ELSE NoResult

\* Lines 680-691: the enabled check, the signature, the hash.
EnterResult(enabled, v) ==
  IF ~enabled THEN Err("disabled")
  ELSE IF GetVideoSignature(v).err THEN Err("signature")
  ELSE NoResult

\* Goroutine w enters GetOrCreateThumbnail(v) and runs lines 680-691, which
\* read nothing another goroutine writes.
Enter(w, v, isTask) ==
  LET r == EnterResult(ThumbnailEnabled, v)
  IN /\ pc' = [pc EXCEPT ![w] = IF r.err # "" THEN "done" ELSE "cacheRLock"]
     /\ video' = [video EXCEPT ![w] = v]
     /\ res' = [res EXCEPT ![w] = r]
     /\ cachedPath' = [cachedPath EXCEPT ![w] = NoCached]
     /\ gen' = [gen EXCEPT ![w] = "no"]
     /\ task' = [task EXCEPT ![w] = isTask]
     /\ tampered' = tampered \ {w}

\* A caller (the HTTP handler, a test) invokes GetOrCreateThumbnail(v).
CallBody(v) ==
  /\ budget.calls > 0
  /\ FirstFree \in Workers
  /\ Enter(FirstFree, v, FALSE)
  /\ budget' = [budget EXCEPT !.calls = @ - 1]
  /\ UNCHANGED <<sharedVars, seekTime, flusherVars, pregenVars>>

Call(v) == CallBody(v) /\ UNCHANGED <<last, calc>>

\* Line 694.
CacheRLock(w) ==
  /\ pc[w] = "cacheRLock"
  /\ CanRLock
  /\ ThumbnailCacheMutex' = RLock(ThumbnailCacheMutex, w)
  /\ pc' = [pc EXCEPT ![w] = "cacheRead"]
  /\ UNCHANGED <<ThumbnailEnabled, ThumbnailCache, thumbnailChanged,
                 ThumbnailSemaphore, files, cacheJson, unsaved, workerVars,
                 flusherVars, pregenVars, budget, tampered, last, calc>>

\* Lines 695-696: the lookup and RUnlock.
CacheRead(w) ==
  /\ pc[w] = "cacheRead"
  /\ LET h == sigHash(w)
         hit == h \in DOMAIN ThumbnailCache
     IN /\ cachedPath' = [cachedPath EXCEPT ![w] =
              [exists |-> hit, path |-> IF hit THEN ThumbnailCache[h] ELSE NoPath]]
        /\ pc' = [pc EXCEPT ![w] = IF hit THEN "statCached" ELSE "statThumb"]
  /\ ThumbnailCacheMutex' = RUnlock(ThumbnailCacheMutex, w)
  /\ UNCHANGED <<ThumbnailEnabled, ThumbnailCache, thumbnailChanged,
                 ThumbnailSemaphore, files, cacheJson, unsaved, video, seekTime,
                 res, gen, task, flusherVars, pregenVars, budget, tampered, last, calc>>

StatAlways(path) == TRUE
StatNever(path) == FALSE
\* os.Stat(path) succeeds for any file that is there, whatever its content.
StatOk(path) == files[path] # "absent"

\* Lines 698-704: the cached thumbnail is verified on disk.
StatCached(w) ==
  /\ pc[w] = "statCached"
  /\ IF StatOk(cachedPath[w].path)
     THEN /\ res' = [res EXCEPT ![w] = Ok(cachedPath[w].path, "hit")]
          /\ pc' = [pc EXCEPT ![w] = "done"]
     ELSE /\ pc' = [pc EXCEPT ![w] = "statThumb"]
          /\ UNCHANGED res
  /\ UNCHANGED <<sharedVars, video, cachedPath, seekTime, gen, task, flusherVars,
                 pregenVars, budget, tampered, last, calc>>

\* Lines 707-722: the deterministic path, its stat, and MkdirAll.
StatThumb(w) ==
  /\ pc[w] = "statThumb"
  /\ \/ /\ StatOk(thumbnailPath(w))
        /\ pc' = [pc EXCEPT ![w] = "diskLock"]
        /\ UNCHANGED res
     \/ /\ ~StatOk(thumbnailPath(w))
        /\ \E mkdirOk \in BOOLEAN :
             IF mkdirOk
             THEN pc' = [pc EXCEPT ![w] = "semAcquire"] /\ UNCHANGED res
             ELSE /\ pc' = [pc EXCEPT ![w] = "done"]
                  /\ res' = [res EXCEPT ![w] = Err("mkdir")]
  /\ UNCHANGED <<sharedVars, video, cachedPath, seekTime, gen, task, flusherVars,
                 pregenVars, budget, tampered, last, calc>>

\* Line 712.
DiskLock(w) ==
  /\ pc[w] = "diskLock"
  /\ CanLock
  /\ ThumbnailCacheMutex' = Lock(ThumbnailCacheMutex, w)
  /\ pc' = [pc EXCEPT ![w] = "diskPut"]
  /\ UNCHANGED <<ThumbnailEnabled, ThumbnailCache, thumbnailChanged,
                 ThumbnailSemaphore, files, cacheJson, unsaved, workerVars,
                 flusherVars, pregenVars, budget, tampered, last, calc>>

KeepFlag(flag) == flag
\* thumbnailChanged = true, as lines 714 and 732 set it.
MarkChanged(flag) == TRUE

\* Lines 713-716: the thumbnail found on disk is stored and returned.
DiskPut(w) ==
  /\ pc[w] = "diskPut"
  /\ ThumbnailCache' = Put(ThumbnailCache, sigHash(w), thumbnailPath(w))
  /\ thumbnailChanged' = MarkChanged(thumbnailChanged)
  /\ unsaved' = TRUE
  /\ ThumbnailCacheMutex' = Unlock(ThumbnailCacheMutex, w)
  /\ res' = [res EXCEPT ![w] = Ok(thumbnailPath(w), "disk")]
  /\ pc' = [pc EXCEPT ![w] = "done"]
  /\ UNCHANGED <<ThumbnailEnabled, ThumbnailSemaphore, files, cacheJson, video,
                 cachedPath, seekTime, gen, task, flusherVars, pregenVars,
                 budget, tampered, last, calc>>

\* Line 617: a slot is taken on entry to GenerateVideoThumbnail.
SemAcquire(w) ==
  /\ pc[w] = "semAcquire"
  /\ CanAcquire
  /\ ThumbnailSemaphore' = ThumbnailSemaphore + 1
  /\ gen' = [gen EXCEPT ![w] = "slot"]
  /\ pc' = [pc EXCEPT ![w] = "probe"]
  /\ UNCHANGED <<ThumbnailEnabled, ThumbnailCache, thumbnailChanged,
                 ThumbnailCacheMutex, files, cacheJson, unsaved, video, cachedPath,
                 seekTime, res, task, flusherVars, pregenVars, budget, tampered,
                 last, calc>>

\* What ProbeWithTimeout and the parse of its output can yield: an error (the
\* timeout included), output that does not parse, or a duration in seconds.
Durations == {0, 5, 40}
ProbeOutcomes ==
  {[kind |-> "error", duration |-> 0], [kind |-> "unparseable", duration |-> 0]}
  \cup {[kind |-> "duration", duration |-> d] : d \in Durations}

SeekWithoutFloor(outcome) ==
  IF outcome.kind = "duration" /\ outcome.duration > 0
  THEN outcome.duration ELSE DefaultSeek

\* Lines 621-649, in tenths of a second: duration * 0.1 seconds is `duration`
\* tenths.
SeekTime(outcome) ==
  IF outcome.kind = "duration" /\ outcome.duration > 0
  THEN IF outcome.duration < MinSeek THEN MinSeek ELSE outcome.duration
  ELSE DefaultSeek

AfterGenerateIgnoringError(failed) == "putLock"
\* Lines 725-727: GetOrCreateThumbnail returns the error of
\* GenerateVideoThumbnail, and goes on to store the path when there is none.
AfterGenerate(failed) == IF failed THEN "done" ELSE "putLock"

\* Lines 621-672 and the deferred release of line 618: the probe runs, the
\* seek offset is computed and ffmpeg is started with it. ffmpeg either fails
\* before it opens the output, and GenerateVideoThumbnail returns the error,
\* or creates (truncates) the output file and goes on writing it.
ProbeAndStart(w) ==
  /\ pc[w] = "probe"
  /\ gen' = [gen EXCEPT ![w] = "ffmpeg"]
  /\ \/ /\ \E outcome \in ProbeOutcomes :
             seekTime' = [seekTime EXCEPT ![w] = SeekTime(outcome)]
        /\ files' = [files EXCEPT ![thumbnailPath(w)] = "partial"]
        /\ pc' = [pc EXCEPT ![w] = "extracting"]
        /\ UNCHANGED <<ThumbnailSemaphore, res>>
     \/ /\ ThumbnailSemaphore > 0
        /\ ThumbnailSemaphore' = DeferredRelease(ThumbnailSemaphore, TRUE)
        /\ res' = [res EXCEPT ![w] = Err("ffmpeg")]
        /\ pc' = [pc EXCEPT ![w] = AfterGenerate(TRUE)]
        /\ UNCHANGED <<files, seekTime>>
  /\ UNCHANGED <<ThumbnailEnabled, ThumbnailCache, thumbnailChanged,
                 ThumbnailCacheMutex, cacheJson, unsaved, video, cachedPath,
                 task, flusherVars, pregenVars, budget, tampered, last, calc>>

\* Lines 668-675, 618 and 725-727: ffmpeg ends. On success the file is complete
\* (unless it was unlinked meanwhile); on failure what was written stays.
ExtractClose(w) ==
  /\ pc[w] = "extracting"
  /\ ThumbnailSemaphore > 0
  /\ \/ /\ files' = [files EXCEPT ![thumbnailPath(w)] =
                       IF @ = "absent" THEN "absent" ELSE "complete"]
        /\ ThumbnailSemaphore' = DeferredRelease(ThumbnailSemaphore, FALSE)
        /\ pc' = [pc EXCEPT ![w] = AfterGenerate(FALSE)]
        /\ UNCHANGED res
     \/ /\ ThumbnailSemaphore' = DeferredRelease(ThumbnailSemaphore, TRUE)
        /\ res' = [res EXCEPT ![w] = Err("ffmpeg")]
        /\ pc' = [pc EXCEPT ![w] = AfterGenerate(TRUE)]
        /\ UNCHANGED files
  /\ seekTime' = [seekTime EXCEPT ![w] = DefaultSeek]
  /\ UNCHANGED <<ThumbnailEnabled, ThumbnailCache, thumbnailChanged,
                 ThumbnailCacheMutex, cacheJson, unsaved, video, cachedPath,
                 gen, task, flusherVars, pregenVars, budget, tampered, last, calc>>

\* Line 730.
PutLock(w) ==
  /\ pc[w] = "putLock"
  /\ CanLock
  /\ ThumbnailCacheMutex' = Lock(ThumbnailCacheMutex, w)
  /\ pc' = [pc EXCEPT ![w] = "put"]
  /\ UNCHANGED <<ThumbnailEnabled, ThumbnailCache, thumbnailChanged,
                 ThumbnailSemaphore, files, cacheJson, unsaved, workerVars,
                 flusherVars, pregenVars, budget, tampered, last, calc>>

\* Lines 731-735: the generated thumbnail is stored and returned.
PutStore(w) ==
  /\ pc[w] = "put"
  /\ ThumbnailCache' = Put(ThumbnailCache, sigHash(w), thumbnailPath(w))
  /\ thumbnailChanged' = MarkChanged(thumbnailChanged)
  /\ unsaved' = TRUE
  /\ ThumbnailCacheMutex' = Unlock(ThumbnailCacheMutex, w)
  /\ res' = [res EXCEPT ![w] = Ok(thumbnailPath(w), "generated")]
  /\ pc' = [pc EXCEPT ![w] = "done"]
  /\ UNCHANGED <<ThumbnailEnabled, ThumbnailSemaphore, files, cacheJson, video,
                 cachedPath, seekTime, gen, task, flusherVars, pregenVars,
                 budget, tampered, last, calc>>

\* ------------------------------------------------------ saveThumbnailCache
\* json.Marshal of the map: the members of the JSON object. json.Unmarshal
\* rebuilds the map from them.
Marshal(m) == {<<h, m[h]>> : h \in DOMAIN m}
Unmarshal(text) ==
  [h \in {member[1] : member \in text} |->
     (CHOOSE member \in text : member[1] = h)[2]]

\* Where a flusher goes when its flush is over: the saver waits for the next
\* tick, PreGenerateThumbnails returns.
Rest(f) == IF f \in Savers THEN "tick" ELSE "pgDone"
FlushPcs == {"chkRead", "saveEntry", "saveRLock", "marshal", "write", "clear"}

\* Lines 596-597: the ticker fires and the saver takes the read lock.
Tick(s) ==
  /\ pc[s] = "tick"
  /\ budget.ticks > 0
  /\ CanRLock
  /\ ThumbnailCacheMutex' = RLock(ThumbnailCacheMutex, s)
  /\ pc' = [pc EXCEPT ![s] = "chkRead"]
  /\ budget' = [budget EXCEPT !.ticks = @ - 1]
  /\ UNCHANGED <<ThumbnailEnabled, ThumbnailCache, thumbnailChanged,
                 ThumbnailSemaphore, files, cacheJson, unsaved, workerVars,
                 flusherVars, pregenVars, tampered, last, calc>>

\* Lines 598-602 and 863-867: changed := thumbnailChanged under the read lock,
\* RUnlock, and the branch on `changed`.
ChkRead(f) ==
  /\ pc[f] = "chkRead"
  /\ ThumbnailCacheMutex' = RUnlock(ThumbnailCacheMutex, f)
  /\ pc' = [pc EXCEPT ![f] = IF thumbnailChanged THEN "saveEntry" ELSE Rest(f)]
  /\ UNCHANGED <<ThumbnailEnabled, ThumbnailCache, thumbnailChanged,
                 ThumbnailSemaphore, files, cacheJson, unsaved, workerVars, data,
                 pregenVars, budget, tampered, last, calc>>

\* Lines 567-569: the flag is read again, without the lock. The read races
\* only with the unlocked write of line 586 in the other flusher (the puts
\* write under the lock this flusher has just taken and released); it yields
\* the value before or after that write, which are the two orders of
\* SaveEntry and the other flusher's SaveClear.
SaveEntry(f) ==
  /\ pc[f] = "saveEntry"
  /\ pc' = [pc EXCEPT ![f] = IF thumbnailChanged THEN "saveRLock" ELSE Rest(f)]
  /\ UNCHANGED <<sharedVars, workerVars, flusherVars, pregenVars, budget, tampered,
                 last, calc>>

\* Line 571.
SaveRLock(f) ==
  /\ pc[f] = "saveRLock"
  /\ CanRLock
  /\ ThumbnailCacheMutex' = RLock(ThumbnailCacheMutex, f)
  /\ pc' = [pc EXCEPT ![f] = "marshal"]
  /\ UNCHANGED <<ThumbnailEnabled, ThumbnailCache, thumbnailChanged,
                 ThumbnailSemaphore, files, cacheJson, unsaved, workerVars,
                 flusherVars, pregenVars, budget, tampered, last, calc>>

\* Lines 572-578: the snapshot. json.Marshal of a map[string]string has no
\* error outcome, so the branch of lines 575-578 is never taken.
SaveMarshal(f) ==
  /\ pc[f] = "marshal"
  /\ data' = [data EXCEPT ![f] = Marshal(ThumbnailCache)]
  /\ ThumbnailCacheMutex' = RUnlock(ThumbnailCacheMutex, f)
  /\ pc' = [pc EXCEPT ![f] = "write"]
  /\ UNCHANGED <<ThumbnailEnabled, ThumbnailCache, thumbnailChanged,
                 ThumbnailSemaphore, files, cacheJson, unsaved, workerVars,
                 pregenVars, budget, tampered, last, calc>>

AfterWriteAlwaysClear(f, ok) == "clear"
AfterWriteNeverClear(f, ok) == Rest(f)
\* Where saveThumbnailCache goes after os.WriteFile (lines 581-584).
AfterWrite(f, ok) == IF ok THEN "clear" ELSE Rest(f)

\* Lines 580-584: os.WriteFile. A failure leaves cache.json as it was (the
\* open failed) or torn (the write failed after the truncation).
SaveWrite(f) ==
  /\ pc[f] = "write"
  /\ \/ /\ cacheJson' = [state |-> "ok", text |-> data[f]]
        /\ unsaved' = FALSE
        /\ pc' = [pc EXCEPT ![f] = AfterWrite(f, TRUE)]
     \/ /\ cacheJson' \in {cacheJson, [state |-> "torn", text |-> {}]}
        /\ pc' = [pc EXCEPT ![f] = AfterWrite(f, FALSE)]
        /\ UNCHANGED unsaved
  /\ data' = [data EXCEPT ![f] = {}]
  /\ UNCHANGED <<ThumbnailEnabled, ThumbnailCache, thumbnailChanged,
                 ThumbnailSemaphore, ThumbnailCacheMutex, files, workerVars,
                 pregenVars, budget, tampered, last, calc>>

\* Lines 586-587: the flag is cleared, without the lock; against a put's
\* locked write either write may come last, as the two orders of the steps.
SaveClear(f) ==
  /\ pc[f] = "clear"
  /\ thumbnailChanged' = FALSE
  /\ pc' = [pc EXCEPT ![f] = Rest(f)]
  /\ UNCHANGED <<ThumbnailEnabled, ThumbnailCache, ThumbnailSemaphore,
                 ThumbnailCacheMutex, files, cacheJson, unsaved, workerVars,
                 flusherVars, pregenVars, budget, tampered, last, calc>>

\* --------------------------------------------------- PreGenerateThumbnails
\* Lines 815-818.
numToProcess ==
  IF Len(firstPage.list) < PreGenerate THEN Len(firstPage.list) ELSE PreGenerate

\* Lines 784-823: the early returns and the set-up of the loop.
PreGenStart ==
  /\ pc["pregen"] = "pgInit"
  /\ pc' = [pc EXCEPT !["pregen"] =
       IF ~ThumbnailEnabled \/ PreGenerate <= 0 THEN "pgDone"
       ELSE IF ~firstPage.readable THEN "pgDone"
       ELSE IF Len(firstPage.list) = 0 THEN "pgDone"
       ELSE "pgLoop"]
  /\ UNCHANGED <<sharedVars, workerVars, flusherVars, pregenVars, budget, tampered,
                 last, calc>>

LimitReachedLate(n, limit) == n > limit
\* Line 831.
LimitReached(n, limit) == n >= limit

\* Lines 826-855: one iteration of the loop. A launched goroutine starts in
\* GetOrCreateThumbnail.
PreGenLoop ==
  /\ pc["pregen"] = "pgLoop"
  /\ IF idx > Len(firstPage.list)
     THEN /\ pc' = [pc EXCEPT !["pregen"] = "pgWait"]
          /\ UNCHANGED <<idx, processed, video, res, cachedPath, gen, task, tampered>>
     ELSE IF firstPage.list[idx].Type # "video"
     THEN /\ idx' = idx + 1
          /\ UNCHANGED <<pc, processed, video, res, cachedPath, gen, task, tampered>>
     ELSE IF LimitReached(processed, numToProcess)
     THEN /\ pc' = [pc EXCEPT !["pregen"] = "pgWait"]
          /\ UNCHANGED <<idx, processed, video, res, cachedPath, gen, task, tampered>>
     ELSE /\ FirstFreeTask \in Workers
          /\ Enter(FirstFreeTask, firstPage.list[idx].Name, TRUE)
          /\ processed' = processed + 1
          /\ idx' = idx + 1
  /\ UNCHANGED <<sharedVars, seekTime, flusherVars, firstPage, PreGenerate, budget,
                 last, calc>>

\* Lines 858-862: wg.Wait returns once every launched goroutine ran wg.Done,
\* and the read lock is taken.
PreGenWait ==
  /\ pc["pregen"] = "pgWait"
  /\ \A w \in Workers : task[w] => pc[w] = "done"
  /\ CanRLock
  /\ ThumbnailCacheMutex' = RLock(ThumbnailCacheMutex, "pregen")
  /\ pc' = [pc EXCEPT !["pregen"] = "chkRead"]
  /\ UNCHANGED <<ThumbnailEnabled, ThumbnailCache, thumbnailChanged,
                 ThumbnailSemaphore, files, cacheJson, unsaved, workerVars,
                 flusherVars, pregenVars, budget, tampered, last, calc>>

\* ---------------------------------------------------------- the environment
\* Somebody outside the process removes a thumbnail file.
ExternalDelete(path) ==
  /\ budget.deletes > 0
  /\ budget' = [budget EXCEPT !.deletes = @ - 1]
  /\ files[path] # "absent"
  /\ files' = [files EXCEPT ![path] = "absent"]
  /\ tampered' = tampered \cup
       {w \in Workers : pc[w] \notin {"idle", "done"}
                        /\ path \in {thumbnailPath(w), cachedPath[w].path}}
  /\ UNCHANGED <<ThumbnailEnabled, ThumbnailCache, thumbnailChanged,
                 ThumbnailSemaphore, ThumbnailCacheMutex, cacheJson, unsaved, pc,
                 workerVars, flusherVars, pregenVars, last, calc>>

\* ----------------------------------------------------------- InitThumbnails
\* json.Unmarshal into a map that is not nil keeps its entries and sets the
\* keys of the JSON object.
Merge(m, loaded) ==
  [h \in DOMAIN m \cup DOMAIN loaded |-> IF h \in DOMAIN loaded THEN loaded[h] ELSE m[h]]

LoadWithoutReset(m, json) ==
  IF json.state \in {"none", "unreadable"} THEN m ELSE Merge(m, Unmarshal(json.text))

\* Lines 545-563 on the map m: a missing or unreadable cache.json leaves the
\* map as it is, a malformed one (whatever was decoded before the error, its
\* text here) resets it to empty, a valid one is decoded into it.
loadThumbnailCache(m, json) ==
  IF json.state \in {"none", "unreadable"} THEN m
  ELSE IF json.state = "ok" THEN Merge(m, Unmarshal(json.text))
  ELSE EmptyMap

\* What cache.json can hold when the process starts: nothing, text that does
\* not parse, or the map an earlier run saved (here for the hash of a.mp4,
\* under the current or under an older path).
LoadedMaps ==
  {[h \in OldHashes |-> ThumbPath(h)], [h \in OldHashes |-> OldPath(h)]}
InitialJsons ==
  {[state |-> "none", text |-> {}], [state |-> "malformed", text |-> {}]} \cup
  {[state |-> "ok", text |-> Marshal(m)] : m \in LoadedMaps}
InitialFiles == {[p \in Paths |-> "absent"], [p \in Paths |-> "complete"]}

\* video_1.json as scanDirectory wrote it.
VideoEntry(name) == [Type |-> "video", Name |-> name]
OtherEntry(name) == [Type |-> "text", Name |-> name]
NoPage == [readable |-> FALSE, list |-> <<>>]
FirstPage ==
  [readable |-> TRUE,
   list |-> <<VideoEntry("b.mp4"), OtherEntry("notes.txt"), VideoEntry("c.mp4"),
              VideoEntry("a.mp4")>>]

\* No pure function is being applied.
NoFile == [Exists |-> FALSE, Size |-> 0, ModTime |-> 0, Header |-> "", Read |-> "ok"]
NoSig == [err |-> FALSE, Size |-> 0, ModTime |-> 0, HeaderHash |-> <<>>]
NoOutcome == [kind |-> "error", duration |-> 0]
NoCalc ==
  [op |-> "none", a |-> NoFile, b |-> NoFile, outcome |-> NoOutcome,
   sigA |-> NoSig, sigB |-> NoSig, hashA |-> <<>>, hashB |-> <<>>, seek |-> 0]

\* Lines 871-915, and main's go PreGenerateThumbnails (localpics.go:606-609):
\* the state once InitThumbnails(enable, ...) has returned.
InitThumbnails(enable, mkdirOk, json, fs, limit, page, env) ==
  /\ ThumbnailEnabled = (enable /\ mkdirOk)
  /\ ThumbnailCache = IF enable /\ mkdirOk THEN loadThumbnailCache(EmptyMap, json)
                                           ELSE EmptyMap
  /\ thumbnailChanged = FALSE
  /\ ThumbnailSemaphore = 0
  /\ ThumbnailCacheMutex = [readers |-> {}, writer |-> "none"]
  /\ files = fs
  /\ cacheJson = json
  /\ pc = [p \in Procs |->
             IF p = "saver" THEN (IF enable /\ mkdirOk THEN "tick" ELSE "off")
             ELSE IF p = "saver2" THEN "off"
             ELSE IF p = "pregen" THEN (IF enable THEN "pgInit" ELSE "pgDone")
             ELSE IF p = "init" THEN "initIdle"
             ELSE "idle"]
  /\ video = [w \in Workers |-> ""]
  /\ cachedPath = [w \in Workers |-> NoCached]
  /\ seekTime = [w \in Workers |-> DefaultSeek]
  /\ res = [w \in Workers |-> NoResult]
  /\ gen = [w \in Workers |-> "no"]
  /\ task = [w \in Workers |-> FALSE]
  /\ data = [f \in Flushers |-> {}]
  /\ firstPage = page
  /\ PreGenerate = IF enable THEN limit ELSE 0
  /\ idx = 1
  /\ processed = 0
  /\ budget = env
  /\ unsaved = FALSE
  /\ tampered = {}
  /\ last = [video |-> "", res |-> NoResult, gen |-> "no", cache |-> EmptyMap,
             flag |-> FALSE]

\* The environment of a run: MaxCalls calls of GetOrCreateThumbnail in all,
\* `limit` of them left to the pre-generation.
Budget(limit) ==
  [calls |-> MaxCalls - limit, ticks |-> MaxTicks, deletes |-> MaxDeletes]

NoJson == [state |-> "none", text |-> {}]
NoFiles == [p \in Paths |-> "absent"]

Init ==
  /\ calc = NoCalc
  /\ \/ \E json \in InitialJsons \ {[state |-> "malformed", text |-> {}]},
           fs \in InitialFiles, limit \in {0, 1} :
          InitThumbnails(TRUE, TRUE, json, fs, limit, FirstPage, Budget(limit))
     \/ InitThumbnails(TRUE, TRUE, [state |-> "malformed", text |-> {}], NoFiles, 0,
                       FirstPage, Budget(0))
     \/ InitThumbnails(TRUE, TRUE, NoJson, NoFiles, MaxCalls, FirstPage,
                       Budget(MaxCalls))
     \/ InitThumbnails(TRUE, TRUE, NoJson, NoFiles, 1, NoPage, Budget(0))
     \/ \E enable \in BOOLEAN :
          InitThumbnails(enable, FALSE, NoJson, NoFiles, 1, FirstPage, Budget(0))

Next ==
  \/ \E v \in VideoPaths : Call(v)
  \/ \E w \in Workers : CacheRLock(w)
  \/ \E w \in Workers : CacheRead(w)
  \/ \E w \in Workers : StatCached(w)
  \/ \E w \in Workers : StatThumb(w)
  \/ \E w \in Workers : DiskLock(w)
  \/ \E w \in Workers : DiskPut(w)
  \/ \E w \in Workers : SemAcquire(w)
  \/ \E w \in Workers : ProbeAndStart(w)
  \/ \E w \in Workers : ExtractClose(w)
  \/ \E w \in Workers : PutLock(w)
  \/ \E w \in Workers : PutStore(w)
  \/ \E s \in Savers : Tick(s)
  \/ \E f \in Flushers : ChkRead(f)
  \/ \E f \in Flushers : SaveEntry(f)
  \/ \E f \in Flushers : SaveRLock(f)
  \/ \E f \in Flushers : SaveMarshal(f)
  \/ \E f \in Flushers : SaveWrite(f)
  \/ \E f \in Flushers : SaveClear(f)
  \/ PreGenStart
  \/ PreGenLoop
  \/ PreGenWait
  \/ \E path \in Paths : ExternalDelete(path)

Spec == Init /\ [][Next]_vars

\* ------------------------------------------------ concurrent callers only
\* NumWorkers + 1 calls on a fresh cache, more callers than slots, with no tick
\* of the saver and no pre-generation during the run.
SemVideos == {"a.mp4", "c.mp4"}

InitSem ==
  /\ calc = NoCalc
  /\ \E fs \in InitialFiles :
       InitThumbnails(TRUE, TRUE, NoJson, fs, 0, NoPage,
                      [calls |-> NumWorkers + 1, ticks |-> 0, deletes |-> 0])

NextSem ==
  \/ \E v \in SemVideos : Call(v)
  \/ \E w \in Workers : CacheRLock(w)
  \/ \E w \in Workers : CacheRead(w)
  \/ \E w \in Workers : StatCached(w)
  \/ \E w \in Workers : StatThumb(w)
  \/ \E w \in Workers : DiskLock(w)
  \/ \E w \in Workers : DiskPut(w)
  \/ \E w \in Workers : SemAcquire(w)
  \/ \E w \in Workers : ProbeAndStart(w)
  \/ \E w \in Workers : ExtractClose(w)
  \/ \E w \in Workers : PutLock(w)
  \/ \E w \in Workers : PutStore(w)

SpecSem == InitSem /\ [][NextSem]_vars

\* ------------------------------------------------------- sequential runs
\* One operation at a time (a call, a tick of the saver), each run to its end
\* before the next starts, and no change to the files from outside.
MaxSeqCalls == 3
MaxSeqTicks == 3

Quiet ==
  /\ \A w \in Workers : pc[w] \in {"idle", "done"}
  /\ \A f \in Flushers : pc[f] \in {"off", "tick", "pgInit", "pgDone"}

\* The call that returned last, as the next one starts.
Summary(w) == [video |-> video[w], res |-> res[w], gen |-> gen[w]]
Previous(w) ==
  IF pc[w] = "done" THEN Summary(w)
  ELSE [video |-> last.video, res |-> last.res, gen |-> last.gen]

CallSeq(v) ==
  /\ Quiet
  /\ CallBody(v)
  /\ last' = [video |-> Previous(FirstFree).video, res |-> Previous(FirstFree).res,
              gen |-> Previous(FirstFree).gen, cache |-> ThumbnailCache,
              flag |-> thumbnailChanged]
  /\ UNCHANGED calc

TickSeq == Quiet /\ \E s \in Savers : Tick(s)

InitSeq ==
  /\ calc = NoCalc
  /\ \E json \in InitialJsons, fs \in [Paths -> {"absent", "complete"}] :
       InitThumbnails(TRUE, TRUE, json, fs, 0, FirstPage,
                      [calls |-> MaxSeqCalls, ticks |-> MaxSeqTicks, deletes |-> 0])

NextSeq ==
  \/ \E v \in DOMAIN InputDir \cup {"gone.mp4"} : CallSeq(v)
  \/ \E w \in Workers : CacheRLock(w)
  \/ \E w \in Workers : CacheRead(w)
  \/ \E w \in Workers : StatCached(w)
  \/ \E w \in Workers : StatThumb(w)
  \/ \E w \in Workers : DiskLock(w)
  \/ \E w \in Workers : DiskPut(w)
  \/ \E w \in Workers : SemAcquire(w)
  \/ \E w \in Workers : ProbeAndStart(w)
  \/ \E w \in Workers : ExtractClose(w)
  \/ \E w \in Workers : PutLock(w)
  \/ \E w \in Workers : PutStore(w)
  \/ TickSeq
  \/ \E f \in Flushers : ChkRead(f)
  \/ \E f \in Flushers : SaveEntry(f)
  \/ \E f \in Flushers : SaveRLock(f)
  \/ \E f \in Flushers : SaveMarshal(f)
  \/ \E f \in Flushers : SaveWrite(f)
  \/ \E f \in Flushers : SaveClear(f)

SpecSeq == InitSeq /\ [][NextSeq]_vars

\* ------------------------------------------------- pre-generation alone
\* PreGenerateThumbnails with limits up to MaxPreGen on pages with fewer and
\* with more videos than the limit, a video that is gone among them; no other
\* caller and no tick of the saver during the run. Every goroutine that can
\* take a step eventually takes one: ffmpeg and the probe end.
MaxPreGen == 4
GonePage ==
  [readable |-> TRUE,
   list |-> <<OtherEntry("notes.txt"), VideoEntry("gone.mp4"), VideoEntry("c.mp4")>>]
EmptyPage == [readable |-> TRUE, list |-> <<>>]
PrePages == {FirstPage, GonePage, EmptyPage, NoPage}

InitPre ==
  /\ calc = NoCalc
  /\ \E fs \in InitialFiles, limit \in 1..MaxPreGen, page \in PrePages :
       InitThumbnails(TRUE, TRUE, NoJson, fs, limit, page,
                      [calls |-> 0, ticks |-> 0, deletes |-> 0])

NextPre ==
  \/ PreGenStart
  \/ PreGenLoop
  \/ PreGenWait
  \/ \E w \in Workers : CacheRLock(w)
  \/ \E w \in Workers : CacheRead(w)
  \/ \E w \in Workers : StatCached(w)
  \/ \E w \in Workers : StatThumb(w)
  \/ \E w \in Workers : DiskLock(w)
  \/ \E w \in Workers : DiskPut(w)
  \/ \E w \in Workers : SemAcquire(w)
  \/ \E w \in Workers : ProbeAndStart(w)
  \/ \E w \in Workers : ExtractClose(w)
  \/ \E w \in Workers : PutLock(w)
  \/ \E w \in Workers : PutStore(w)
  \/ \E f \in Flushers : ChkRead(f)
  \/ \E f \in Flushers : SaveEntry(f)
  \/ \E f \in Flushers : SaveRLock(f)
  \/ \E f \in Flushers : SaveMarshal(f)
  \/ \E f \in Flushers : SaveWrite(f)
  \/ \E f \in Flushers : SaveClear(f)

SpecPre == InitPre /\ [][NextPre]_vars /\ WF_vars(NextPre)

\* ------------------------------------- concurrent callers, one signature
\* NumWorkers calls on a fresh cache for two videos that are byte-identical
\* under different names, in every interleaving.
SameVideos == {"a.mp4", "b.mp4"}

InitSame ==
  /\ calc = NoCalc
  /\ \E fs \in InitialFiles :
       InitThumbnails(TRUE, TRUE, NoJson, fs, 0, NoPage,
                      [calls |-> NumWorkers, ticks |-> 0, deletes |-> 0])

NextSame ==
  \/ \E v \in SameVideos : Call(v)
  \/ \E w \in Workers : CacheRLock(w)
  \/ \E w \in Workers : CacheRead(w)
  \/ \E w \in Workers : StatCached(w)
  \/ \E w \in Workers : StatThumb(w)
  \/ \E w \in Workers : DiskLock(w)
  \/ \E w \in Workers : DiskPut(w)
  \/ \E w \in Workers : SemAcquire(w)
  \/ \E w \in Workers : ProbeAndStart(w)
  \/ \E w \in Workers : ExtractClose(w)
  \/ \E w \in Workers : PutLock(w)
  \/ \E w \in Workers : PutStore(w)

SpecSame == InitSame /\ [][NextSame]_vars

\* --------------------------------------------- tools that do not complete
\* ffprobe and ffmpeg as processes that may never exit on their own.
\* ProbeWithTimeout (line 626) is given two seconds: when they are over the
\* probe is killed and probeErr is set. ffmpegCmd.Run() (line 668) is given
\* no deadline and no context: it returns when ffmpeg exits.
ProbeTimedOut == [kind |-> "error", duration |-> 0]

\* Line 626, the probe started and not returning.
ProbeHangs(w) ==
  /\ pc[w] = "probe"
  /\ pc' = [pc EXCEPT ![w] = "probeHung"]
  /\ UNCHANGED <<sharedVars, workerVars, flusherVars, pregenVars, budget, tampered,
                 last, calc>>

AfterProbeReturningError(probeErr) == IF probeErr THEN "done" ELSE "ffmpegStart"
\* Lines 633-649: probeErr is looked at only to skip the parse; nothing
\* returns.
AfterProbe(probeErr) == "ffmpegStart"

\* Lines 626-649 when the two seconds are over: probeErr # nil, the parse is
\* skipped and seekTime keeps its default.
ProbeTimeout(w) ==
  /\ pc[w] = "probeHung"
  /\ seekTime' = [seekTime EXCEPT ![w] = SeekTime(ProbeTimedOut)]
  /\ pc' = [pc EXCEPT ![w] = AfterProbe(TRUE)]
  /\ UNCHANGED <<sharedVars, video, cachedPath, res, gen, task, flusherVars,
                 pregenVars, budget, tampered, last, calc>>

\* Lines 652-672 after a probe that timed out: ffmpeg is started, as in
\* ProbeAndStart.
FfmpegStart(w) ==
  /\ pc[w] = "ffmpegStart"
  /\ gen' = [gen EXCEPT ![w] = "ffmpeg"]
  /\ \/ /\ files' = [files EXCEPT ![thumbnailPath(w)] = "partial"]
        /\ pc' = [pc EXCEPT ![w] = "extracting"]
        /\ UNCHANGED <<ThumbnailSemaphore, res>>
     \/ /\ ThumbnailSemaphore > 0
        /\ ThumbnailSemaphore' = DeferredRelease(ThumbnailSemaphore, TRUE)
        /\ res' = [res EXCEPT ![w] = Err("ffmpeg")]
        /\ pc' = [pc EXCEPT ![w] = AfterGenerate(TRUE)]
        /\ UNCHANGED files
  /\ UNCHANGED <<ThumbnailEnabled, ThumbnailCache, thumbnailChanged,
                 ThumbnailCacheMutex, cacheJson, unsaved, video, cachedPath,
                 seekTime, task, flusherVars, pregenVars, budget, tampered, last,
                 calc>>

\* Line 668, ffmpeg running and never exiting: Run does not return, and the
\* deferred receive of line 618 does not run.
ExtractHangs(w) ==
  /\ pc[w] = "extracting"
  /\ pc' = [pc EXCEPT ![w] = "hung"]
  /\ UNCHANGED <<sharedVars, workerVars, flusherVars, pregenVars, budget, tampered,
                 last, calc>>

InitHang ==
  /\ calc = NoCalc
  /\ \E fs \in InitialFiles :
       InitThumbnails(TRUE, TRUE, NoJson, fs, 0, NoPage,
                      [calls |-> NumWorkers, ticks |-> 0, deletes |-> 0])

NextHang ==
  \/ \E v \in SemVideos : Call(v)
  \/ \E w \in Workers : CacheRLock(w)
  \/ \E w \in Workers : CacheRead(w)
  \/ \E w \in Workers : StatCached(w)
  \/ \E w \in Workers : StatThumb(w)
  \/ \E w \in Workers : DiskLock(w)
  \/ \E w \in Workers : DiskPut(w)
  \/ \E w \in Workers : SemAcquire(w)
  \/ \E w \in Workers : ProbeAndStart(w)
  \/ \E w \in Workers : ProbeHangs(w)
  \/ \E w \in Workers : ProbeTimeout(w)
  \/ \E w \in Workers : FfmpegStart(w)
  \/ \E w \in Workers : ExtractClose(w)
  \/ \E w \in Workers : ExtractHangs(w)
  \/ \E w \in Workers : PutLock(w)
  \/ \E w \in Workers : PutStore(w)

\* Every goroutine that can run does: what can be done is done.
SpecHang == InitHang /\ [][NextHang]_vars /\ WF_vars(NextHang)

\* ------------------------------------- requests and pre-generation, fair
\* The pre-generation of the first FairLimit videos of the page together with
\* FairCalls requests, more entrants than slots; ffprobe and ffmpeg end, and every
\* goroutine that can run does.
FairLimit == 2
FairCalls == 1

InitFair ==
  /\ calc = NoCalc
  /\ \E fs \in InitialFiles :
       InitThumbnails(TRUE, TRUE, NoJson, fs, FairLimit, FirstPage,
                      [calls |-> FairCalls, ticks |-> 0, deletes |-> 0])

NextFair ==
  \/ \E v \in SemVideos : Call(v)
  \/ \E w \in Workers : CacheRLock(w)
  \/ \E w \in Workers : CacheRead(w)
  \/ \E w \in Workers : StatCached(w)
  \/ \E w \in Workers : StatThumb(w)
  \/ \E w \in Workers : DiskLock(w)
  \/ \E w \in Workers : DiskPut(w)
  \/ \E w \in Workers : SemAcquire(w)
  \/ \E w \in Workers : ProbeAndStart(w)
  \/ \E w \in Workers : ExtractClose(w)
  \/ \E w \in Workers : PutLock(w)
  \/ \E w \in Workers : PutStore(w)
  \/ PreGenStart
  \/ PreGenLoop
  \/ PreGenWait
  \/ \E f \in Flushers : ChkRead(f)
  \/ \E f \in Flushers : SaveEntry(f)
  \/ \E f \in Flushers : SaveRLock(f)
  \/ \E f \in Flushers : SaveMarshal(f)
  \/ \E f \in Flushers : SaveWrite(f)
  \/ \E f \in Flushers : SaveClear(f)

SpecFair == InitFair /\ [][NextFair]_vars /\ WF_vars(NextFair)

\* ------------------------------------- the process running on, file writable
\* The ticker of startCacheSaver fires every five minutes for as long as the
\* process lives (lines 592-596), and os.WriteFile on cache.json succeeds.
\* PersistCalls requests are made in all.
PersistCalls == 2

\* Lines 596-597, any number of times.
TickerFires(s) ==
  /\ pc[s] = "tick"
  /\ CanRLock
  /\ ThumbnailCacheMutex' = RLock(ThumbnailCacheMutex, s)
  /\ pc' = [pc EXCEPT ![s] = "chkRead"]
  /\ UNCHANGED <<ThumbnailEnabled, ThumbnailCache, thumbnailChanged,
                 ThumbnailSemaphore, files, cacheJson, unsaved, workerVars,
                 flusherVars, pregenVars, budget, tampered, last, calc>>

\* Lines 580-585 with the write succeeding.
SaveWritten(f) == SaveWrite(f) /\ pc'[f] = "clear"

WorkerStep(w) ==
  \/ CacheRLock(w)
  \/ CacheRead(w)
  \/ StatCached(w)
  \/ StatThumb(w)
  \/ DiskLock(w)
  \/ DiskPut(w)
  \/ SemAcquire(w)
  \/ ProbeAndStart(w)
  \/ ExtractClose(w)
  \/ PutLock(w)
  \/ PutStore(w)

SaverStep(s) ==
  \/ TickerFires(s)
  \/ ChkRead(s)
  \/ SaveEntry(s)
  \/ SaveRLock(s)
  \/ SaveMarshal(s)
  \/ SaveWritten(s)
  \/ SaveClear(s)

InitPersist ==
  /\ calc = NoCalc
  /\ \E fs \in InitialFiles :
       InitThumbnails(TRUE, TRUE, NoJson, fs, 0, NoPage,
                      [calls |-> PersistCalls, ticks |-> 0, deletes |-> 0])

NextPersist ==
  \/ \E v \in SemVideos : Call(v)
  \/ \E w \in Workers : CacheRLock(w)
  \/ \E w \in Workers : CacheRead(w)
  \/ \E w \in Workers : StatCached(w)
  \/ \E w \in Workers : StatThumb(w)
  \/ \E w \in Workers : DiskLock(w)
  \/ \E w \in Workers : DiskPut(w)
  \/ \E w \in Workers : SemAcquire(w)
  \/ \E w \in Workers : ProbeAndStart(w)
  \/ \E w \in Workers : ExtractClose(w)
  \/ \E w \in Workers : PutLock(w)
  \/ \E w \in Workers : PutStore(w)
  \/ \E s \in Savers : TickerFires(s)
  \/ \E f \in Flushers : ChkRead(f)
  \/ \E f \in Flushers : SaveEntry(f)
  \/ \E f \in Flushers : SaveRLock(f)
  \/ \E f \in Flushers : SaveMarshal(f)
  \/ \E f \in Flushers : SaveWritten(f)
  \/ \E f \in Flushers : SaveClear(f)

\* Every goroutine goes on running: each call, and the saver with its ticker.
SpecPersist ==
  /\ InitPersist
  /\ [][NextPersist]_vars
  /\ \A w \in Workers : WF_vars(WorkerStep(w))
  /\ WF_vars(SaverStep("saver"))

\* ------------------------------------------------------------- shutdown
\* localpics.go:373-391 and 597-599: the process gets an interrupt or SIGTERM.
\* With a temporary output directory the goroutine of cleanupOnExit removes
\* that directory and calls os.Exit(0); otherwise no handler is installed and
\* the signal ends the process. Either way every goroutine stops where it is,
\* and nothing is written to the cache directory, which is not the output
\* directory.
Shutdown(tempOut) ==
  /\ pc["init"] # "exited"
  /\ pc' = [p \in Procs |-> "exited"]
  /\ UNCHANGED <<sharedVars, workerVars, flusherVars, pregenVars, budget, tampered,
                 last, calc>>

NextExit ==
  \/ NextPersist
  \/ \E tempOut \in BOOLEAN : Shutdown(tempOut)

\* The running process of SpecPersist (cache.json writable), stopped by a
\* signal at any moment.
SpecExit == InitPersist /\ [][NextExit]_vars

\* ------------------------------------------------ InitThumbnails, called
\* The process before main has called InitThumbnails, and InitThumbnails as
\* steps: called once, and called again while the subsystem runs.
\* Goroutines blocked in the send of line 617 on a full channel stay on that
\* channel when line 889 replaces it: nothing receives from it any more.
BlockedSenders ==
  IF ThumbnailSemaphore = MaxConcurrent
  THEN {w \in Workers : pc[w] = "semAcquire"} ELSE {}

\* Lines 871-896: the flag, the configuration, a new channel, MkdirAll. A
\* goroutine at line 617 is either blocked in the send already (and stays so)
\* or has not evaluated ThumbnailSemaphore yet.
InitEnter(enable, mkdirOk) ==
  /\ pc["init"] = "initIdle"
  /\ \E s \in Savers : pc[s] = "off"
  /\ ThumbnailEnabled' = (enable /\ mkdirOk)
  /\ IF enable
     THEN /\ ThumbnailSemaphore' = 0
          /\ \E stuck \in SUBSET BlockedSenders :
               pc' = [p \in Procs |->
                        IF p \in stuck THEN "stuck"
                        ELSE IF p = "init" /\ mkdirOk THEN "initLoad"
                        ELSE pc[p]]
     ELSE UNCHANGED <<ThumbnailSemaphore, pc>>
  /\ UNCHANGED <<ThumbnailCache, thumbnailChanged, ThumbnailCacheMutex, files,
                 cacheJson, unsaved, workerVars, flusherVars, pregenVars, budget,
                 tampered, last, calc>>

\* The saver goroutine the next startCacheSaver starts.
NextSaver == IF pc["saver"] = "off" THEN "saver" ELSE "saver2"

\* Lines 899-902: loadThumbnailCache (the write lock is taken once the file
\* has been read) and startCacheSaver.
InitLoad ==
  /\ pc["init"] = "initLoad"
  /\ cacheJson.state \in {"none", "unreadable"} \/ CanLock
  /\ ThumbnailCache' = loadThumbnailCache(ThumbnailCache, cacheJson)
  /\ pc' = [pc EXCEPT !["init"] = "initIdle", ![NextSaver] = "tick"]
  /\ UNCHANGED <<ThumbnailEnabled, thumbnailChanged, ThumbnailSemaphore,
                 ThumbnailCacheMutex, files, cacheJson, unsaved, workerVars,
                 flusherVars, pregenVars, budget, tampered, last, calc>>

\* cache.json as the first InitThumbnails may find it; the malformed one has
\* an entry that decodes before the error.
StartJsons ==
  {[state |-> "none", text |-> {}], [state |-> "unreadable", text |-> {}]} \cup
  {[state |-> st, text |-> Marshal([h \in OldHashes |-> ThumbPath(h)])] :
     st \in {"malformed", "ok"}}

InitInit ==
  /\ calc = NoCalc
  /\ \E json \in StartJsons, fs \in InitialFiles :
       InitThumbnails(FALSE, TRUE, json, fs, 0, NoPage,
                      [calls |-> NumWorkers, ticks |-> 0, deletes |-> 0])

\* No ticker fires during the run: the savers have just been started.
NextInit ==
  \/ \E enable \in BOOLEAN, mkdirOk \in BOOLEAN : InitEnter(enable, mkdirOk)
  \/ InitLoad
  \/ \E v \in SemVideos : Call(v)
  \/ \E w \in Workers : CacheRLock(w)
  \/ \E w \in Workers : CacheRead(w)
  \/ \E w \in Workers : StatCached(w)
  \/ \E w \in Workers : StatThumb(w)
  \/ \E w \in Workers : DiskLock(w)
  \/ \E w \in Workers : DiskPut(w)
  \/ \E w \in Workers : SemAcquire(w)
  \/ \E w \in Workers : ProbeAndStart(w)
  \/ \E w \in Workers : ExtractClose(w)
  \/ \E w \in Workers : PutLock(w)
  \/ \E w \in Workers : PutStore(w)

SpecInit == InitInit /\ [][NextInit]_vars

\* ------------------------------------------- the pure functions, applied
\* GetVideoSignature and GetSignatureHash on two files, and the seek offset
\* on what the probe yields, for every input of these sets.
MaxDuration == 45
FileSizes == {0, 10, 20}
ModTimes == {1, 2}
Headers == {"x", "y"}
ReadOutcomes == {"ok", "open", "short"}
FileRecords ==
  {NoFile} \cup [Exists : {TRUE}, Size : FileSizes, ModTime : ModTimes,
                 Header : Headers, Read : ReadOutcomes]
AllProbeOutcomes ==
  {[kind |-> "error", duration |-> 0], [kind |-> "unparseable", duration |-> 0]}
  \cup {[kind |-> "duration", duration |-> d] : d \in (-1)..MaxDuration}

progVars ==
  <<sharedVars, pc, workerVars, flusherVars, pregenVars, budget, tampered, last>>

InitPure ==
  /\ InitThumbnails(TRUE, TRUE, NoJson, NoFiles, 0, NoPage,
                    [calls |-> 0, ticks |-> 0, deletes |-> 0])
  /\ \/ \E f \in FileRecords, g \in FileRecords :
          calc = [NoCalc EXCEPT !.op = "sig", !.a = f, !.b = g]
     \/ \E o \in AllProbeOutcomes :
          calc = [NoCalc EXCEPT !.op = "seek", !.outcome = o]

\* GetSignatureHash(GetVideoSignature(.)) as lines 685-691 apply them.
ApplySignature ==
  /\ calc.op = "sig"
  /\ calc' = [calc EXCEPT !.op = "sigDone",
                          !.sigA = Signature(calc.a),
                          !.sigB = Signature(calc.b),
                          !.hashA = GetSignatureHash(Signature(calc.a)),
                          !.hashB = GetSignatureHash(Signature(calc.b))]
  /\ UNCHANGED progVars

\* The seek offset as lines 621-649 compute it.
ApplySeekTime ==
  /\ calc.op = "seek"
  /\ calc' = [calc EXCEPT !.op = "seekDone", !.seek = SeekTime(calc.outcome)]
  /\ UNCHANGED progVars

NextPure == ApplySignature \/ ApplySeekTime

SpecPure == InitPure /\ [][NextPure]_vars

\* ================================================================ properties
InSlot == {w \in Workers : pc[w] \in {"probe", "extracting"}}
Returned(w) == pc[w] = "done"
Returns(w) == pc[w] # "done" /\ pc'[w] = "done"
HoldsLock(p) ==
  p \in ThumbnailCacheMutex.readers \/ ThumbnailCacheMutex.writer = p
FlushInProgress == \E f \in Flushers : pc[f] \in FlushPcs
Persisted ==
  \A h \in DOMAIN ThumbnailCache :
    cacheJson.state = "ok" /\ <<h, ThumbnailCache[h]>> \in cacheJson.text
ExtractorRuns(g) == IF g = "ffmpeg" THEN 1 ELSE 0

\* C1: at every instant at most MaxConcurrent calls are between the
\* acquisition of a slot and its release (in the probe or the extraction),
\* however many callers there are and however they interleave.
C1_SlotBound == Cardinality(InSlot) <= MaxConcurrent

\* More callers than slots: the slots are all taken and a caller waits.
C1_Witness ==
  /\ Cardinality(InSlot) = MaxConcurrent
  /\ \E w \in Workers : pc[w] = "semAcquire"

\* C2: the slots held are exactly those of the calls still between acquire
\* and return, so every return, failed or not, gives back the one slot it
\* took; when every call has returned no slot is held.
C2_AcquireReleasePaired ==
  /\ ThumbnailSemaphore = Cardinality(InSlot)
  /\ (\A w \in Workers : pc[w] \in {"idle", "done"}) => ThumbnailSemaphore = 0

\* All calls are over, one generation failed and a later one succeeded.
C2_Witness ==
  /\ \A w \in Workers : pc[w] \in {"idle", "done"}
  /\ budget.calls = 0
  /\ \E w \in Workers : res[w].err = "ffmpeg"
  /\ \E w \in Workers : res[w].via = "generated" /\ gen[w] = "ffmpeg"
  /\ ThumbnailSemaphore = 0

\* C3 as stated: two successive calls on the same video that both return a
\* path return the same one, and the extractor ran exactly once in the two.
C3_ExactlyOneExtraction ==
  \A w \in Workers :
    (Returned(w) /\ last.video = video[w] /\ last.res.err = "" /\ res[w].err = "")
    => /\ res[w].path = last.res.path
       /\ ExtractorRuns(last.gen) + ExtractorRuns(gen[w]) = 1

\* C3 amended: when a call returned a path, the next call on the same video
\* returns the same path and does not invoke the extractor; across the two
\* the extractor ran at most once, and exactly once when the first call found
\* the thumbnail neither in the cache nor on disk.
C3_Idempotent ==
  \A w \in Workers :
    (Returned(w) /\ last.video = video[w] /\ last.res.err = "")
    => /\ res[w].err = ""
       /\ res[w].path = last.res.path
       /\ gen[w] = "no"
       /\ ExtractorRuns(last.gen) + ExtractorRuns(gen[w]) <= 1
       /\ (last.res.via = "generated"
             <=> ExtractorRuns(last.gen) + ExtractorRuns(gen[w]) = 1)

\* The first call generated the thumbnail and the second has returned.
C3_Witness ==
  \E w \in Workers :
    /\ Returned(w)
    /\ last.video = video[w]
    /\ last.res.via = "generated"
    /\ res[w].via = "hit"

\* C4: a call that returns a path returns one whose file is there (no file
\* having been removed from outside during the call); and when the map held a
\* path for the hash whose file was gone, the call returns cacheDir/<hash>.jpg,
\* regenerated or found on disk, and the map entry is overwritten with it.
C4_StaleEntryRecovery ==
  [][\A w \in Workers :
       (Returns(w) /\ res'[w].err = "")
       => /\ w \notin tampered => files'[res'[w].path] # "absent"
          /\ (cachedPath[w].exists /\ res'[w].via # "hit")
             => /\ res'[w].path = thumbnailPath(w)
                /\ res'[w].via \in {"disk", "generated"}
                /\ ThumbnailCache'[sigHash(w)] = res'[w].path]_vars

\* A call found a stale entry, regenerated and returned.
C4_Witness ==
  \E w \in Workers :
    /\ Returned(w)
    /\ cachedPath[w].exists
    /\ cachedPath[w].path # thumbnailPath(w)
    /\ res[w].via = "generated"
    /\ files[res[w].path] = "complete"
    /\ files[cachedPath[w].path] = "absent"

\* C5: a call that finds no entry for the hash but finds cacheDir/<hash>.jpg
\* goes on to store and return that path; it takes no slot and starts no
\* extractor, and its return leaves hash -> path in the map and the dirty
\* flag set.
C5_DiskRecovery ==
  [][\A w \in Workers :
       /\ (pc[w] = "statThumb" /\ StatOk(thumbnailPath(w)))
          => pc'[w] \in {"statThumb", "diskLock"}
       /\ pc[w] \in {"diskLock", "diskPut"}
          => (gen[w] = "no" /\ pc'[w] \in {"diskLock", "diskPut", "done"})
       /\ (pc[w] = "diskPut" /\ pc'[w] = "done")
          => /\ res'[w] = Ok(thumbnailPath(w), "disk")
             /\ gen'[w] = "no"
             /\ ThumbnailSemaphore' = ThumbnailSemaphore
             /\ sigHash(w) \in DOMAIN ThumbnailCache'
             /\ ThumbnailCache'[sigHash(w)] = thumbnailPath(w)
             /\ thumbnailChanged']_vars

\* A call on an empty map returned the thumbnail it found on disk.
C5_Witness ==
  \E w \in Workers :
    /\ Returned(w)
    /\ ~cachedPath[w].exists
    /\ res[w].via = "disk"
    /\ gen[w] = "no"
    /\ DOMAIN ThumbnailCache = {sigHash(w)}
    /\ thumbnailChanged

\* C6: while the subsystem is disabled every call has returned the Disabled
\* error, whatever its argument (the signature of a missing video is not
\* computed), no call is past the entry check, no slot and no lock is taken,
\* no extractor has run, and the map and the dirty flag are as they were.
C6_DisabledShortCircuit ==
  ~ThumbnailEnabled
  => /\ \A w \in Workers :
          /\ pc[w] \in {"idle", "done"}
          /\ Returned(w) => res[w] = Err("disabled")
          /\ gen[w] = "no"
          /\ cachedPath[w] = NoCached
     /\ ThumbnailCache = EmptyMap
     /\ ~thumbnailChanged
     /\ ThumbnailSemaphore = 0
     /\ ThumbnailCacheMutex = [readers |-> {}, writer |-> "none"]
     /\ cacheJson = NoJson
     /\ files = NoFiles

\* Disabled, every call has been made and the last one, on a video that does
\* not exist, has returned.
C6_Witness ==
  /\ ~ThumbnailEnabled
  /\ budget.calls = 0
  /\ \E w \in Workers : Returned(w) /\ video[w] = "gone.mp4"

\* C7: in a sequential run a flush goes on to write cache.json exactly when a
\* put happened since the last flush that wrote it: the saver's check and the
\* check on entry to saveThumbnailCache both pass iff there is such a put, and
\* the write is reached only then.
C7_FlushIffPut ==
  [][\A f \in Flushers :
       /\ (pc[f] = "chkRead" /\ pc'[f] # "chkRead")
          => (pc'[f] = "saveEntry" <=> unsaved)
       /\ (pc[f] = "saveEntry" /\ pc'[f] # "saveEntry")
          => (pc'[f] = "saveRLock" <=> unsaved)
       /\ (pc[f] = "write" /\ pc'[f] # "write") => unsaved
       /\ (pc[f] = "write" /\ pc'[f] = "clear")
          => cacheJson' = [state |-> "ok", text |-> Marshal(ThumbnailCache)]]_vars

\* A generation was stored, a flush wrote it and the flush after that one
\* found nothing to write.
C7_Witness ==
  /\ pc["saver"] = "tick"
  /\ budget.ticks = 0
  /\ ~unsaved
  /\ ~thumbnailChanged
  /\ \E w \in Workers : res[w].via = "generated"
  /\ cacheJson = [state |-> "ok", text |-> Marshal(ThumbnailCache)]

\* C8 as stated: whenever no flush is in progress and the dirty flag is
\* false, every entry of the map is in cache.json.
C8_CleanMeansPersisted ==
  (~FlushInProgress /\ ~thumbnailChanged) => Persisted

C10_NoLockAcrossSlowWork ==
  \A p \in Procs :
    pc[p] \in {"semAcquire", "probe", "extracting", "write"} => ~HoldsLock(p)

\* An extraction runs while another goroutine is inside the map under the
\* write lock.
C10_Witness ==
  \E w \in Workers :
    /\ pc[w] = "extracting"
    /\ ThumbnailCacheMutex.writer \in Workers \ {w}

Max(x, y) == IF x >= y THEN x ELSE y

C15_SignatureErrors ==
  calc.op = "sigDone"
  => /\ calc.sigA.err <=> ~calc.a.Exists
     /\ calc.a.Exists
        => /\ calc.sigA.Size = calc.a.Size
           /\ calc.sigA.ModTime = calc.a.ModTime
           /\ (calc.a.Size = 0 \/ calc.a.Read # "ok") => calc.sigA.HeaderHash = <<>>
           /\ (calc.a.Size > 0 /\ calc.a.Read = "ok")
              => calc.sigA.HeaderHash = HeaderDigest(calc.a.Header)

\* A file that is there but cannot be read in full got a signature.
C15_Witness ==
  /\ calc.op = "sigDone"
  /\ calc.a.Exists /\ calc.a.Size = 20 /\ calc.a.Read = "short"
  /\ ~calc.sigA.err
  /\ calc.sigA.Size = 20
  /\ calc.sigA.HeaderHash = <<>>
  /\ ~calc.b.Exists /\ calc.sigB.err

\* C16: in tenths of a second, the seek offset is max(duration, 30), duration
\* being the probed duration in seconds, when the probe yields a duration
\* > 0, and 30 otherwise; it is never below 30. A generation in progress was
\* started with such an offset.
C16_SeekPolicy ==
  /\ calc.op = "seekDone"
     => /\ calc.seek = IF calc.outcome.kind = "duration" /\ calc.outcome.duration > 0
                       THEN Max(calc.outcome.duration, 30) ELSE 30
        /\ calc.seek >= 30
        /\ (calc.outcome = [kind |-> "duration", duration |-> 40]) => calc.seek = 40
        /\ (calc.outcome = [kind |-> "duration", duration |-> 5]) => calc.seek = 30
  /\ \A w \in Workers : seekTime[w] >= 30

\* A duration of 40 s gave an offset of 4.0 s.
C16_Witness ==
  /\ calc.op = "seekDone"
  /\ calc.outcome = [kind |-> "duration", duration |-> 40]
  /\ calc.seek = 40

\* C17: in a sequential run, the step in which the extraction of a call fails
\* ends the call with the error, and leaves the map and the dirty flag as
\* they were when the call started; only a call whose extraction did not fail
\* stores an entry.
C17_FailedExtractionStoresNothing ==
  [][\A w \in Workers :
       /\ (pc[w] \in {"probe", "extracting"} /\ res'[w].err = "ffmpeg")
          => /\ pc'[w] = "done"
             /\ ThumbnailCache' = last.cache
             /\ thumbnailChanged' = last.flag
       /\ (Returns(w) /\ res'[w].err = "ffmpeg")
          => (ThumbnailCache' = last.cache /\ thumbnailChanged' = last.flag)
       /\ pc[w] \in {"putLock", "put"} => res[w].err = ""]_vars

\* An earlier call stored an entry; this one failed in the extraction, left
\* a partial file, and the map and the flag are as it found them.
C17_Witness ==
  \E w \in Workers :
    /\ Returned(w)
    /\ res[w].err = "ffmpeg"
    /\ files[thumbnailPath(w)] = "partial"
    /\ last.res.via = "generated"
    /\ last.flag
    /\ thumbnailChanged
    /\ ThumbnailCache = last.cache
    /\ sigHash(w) \notin DOMAIN ThumbnailCache

\* C18 as stated: after a call that failed in the extraction, the next call
\* on the same video invokes the extractor again, unless it fails before it
\* gets there.
C18_FailedGenerationRetried ==
  \A w \in Workers :
    (/\ Returned(w)
     /\ last.video = video[w]
     /\ last.res.err = "ffmpeg"
     /\ res[w].err # "mkdir")
    => gen[w] = "ffmpeg"

\* C19: the load of InitThumbnails always completes and leaves the subsystem
\* enabled and the dirty flag as it was; a missing or unreadable cache.json
\* leaves the map as it was (empty at startup), a malformed one leaves it
\* empty whatever was decoded before the error, and a valid one loaded into
\* the empty map makes the map equal to the content of the file.
C19_LoadNeverFails ==
  [][(pc["init"] = "initLoad" /\ pc'["init"] # "initLoad")
     => /\ pc'["init"] = "initIdle"
        /\ ThumbnailEnabled'
        /\ thumbnailChanged' = thumbnailChanged
        /\ cacheJson.state \in {"none", "unreadable"} => ThumbnailCache' = ThumbnailCache
        /\ cacheJson.state \in {"malformed", "torn"} => ThumbnailCache' = EmptyMap
        /\ (cacheJson.state = "ok" /\ ThumbnailCache = EmptyMap)
           => Marshal(ThumbnailCache') = cacheJson.text]_vars

\* The first InitThumbnails has returned on a malformed cache.json with a
\* decodable entry: the map is empty, the flag clear, the saver started.
C19_Witness ==
  /\ pc["init"] = "initIdle"
  /\ pc["saver"] = "tick"
  /\ pc["saver2"] = "off"
  /\ cacheJson.state = "malformed"
  /\ cacheJson.text # {}
  /\ ThumbnailEnabled
  /\ ThumbnailCache = EmptyMap
  /\ ~thumbnailChanged

\* C20 as stated, for the limiter and the timer: however often InitThumbnails
\* is called there is one pool of MaxConcurrent slots in which the slots of
\* the generations in flight are counted and can be given back, no goroutine
\* is left blocked on a pool that is gone, and at most one saver runs.
C20_InitIdempotent ==
  /\ ThumbnailSemaphore = Cardinality(InSlot)
  /\ Cardinality(InSlot) <= MaxConcurrent
  /\ \A w \in Workers : pc[w] # "stuck"
  /\ Cardinality({s \in Savers : pc[s] # "off"}) <= 1

IsVideo(entry) == entry.Type = "video"
Videos == SelectSeq(firstPage.list, IsVideo)
Min(x, y) == IF x <= y THEN x ELSE y
Tasks == {w \in Workers : task[w]}
StoredByTasks ==
  {<<sigHash(w), thumbnailPath(w)>> :
     w \in {t \in Tasks : Returned(t) /\ res[t].via \in {"disk", "generated"}}}

\* C11: every launch of PreGenerateThumbnails starts a call on the next video
\* entry of the list, in list order, non-video entries not counted; the loop
\* ends when min(limit, number of video entries) calls have been launched,
\* and the function goes past its wait only when every launched call has
\* returned.
C11_PreGenBound ==
  [][/\ processed' # processed
        => /\ processed' = processed + 1
           /\ processed' <= Min(PreGenerate, Len(Videos))
           /\ \E w \in Workers :
                /\ pc[w] \in {"idle", "done"}
                /\ task'[w]
                /\ video'[w] = Videos[processed'].Name
                /\ \A o \in Workers \ {w} : video'[o] = video[o] /\ pc'[o] = pc[o]
     /\ (pc["pregen"] = "pgLoop" /\ pc'["pregen"] # "pgLoop")
        => /\ pc'["pregen"] = "pgWait"
           /\ processed = Min(PreGenerate, Len(Videos))
           /\ Cardinality(Tasks) = processed
     /\ (pc["pregen"] = "pgWait" /\ pc'["pregen"] # "pgWait")
        => \A w \in Tasks : Returned(w)
     /\ pc'["pregen"] = "pgDone" => \A w \in Tasks : Returned(w)]_vars

\* Limit 2 on the page of three videos and a text: b.mp4 and c.mp4 were
\* launched, a.mp4 was not, and the function has returned.
C11_Witness ==
  /\ pc["pregen"] = "pgDone"
  /\ firstPage = FirstPage
  /\ PreGenerate = 2
  /\ processed = 2
  /\ {video[w] : w \in Tasks} = {"b.mp4", "c.mp4"}
  /\ \A w \in Tasks : Returned(w)

\* C12: once a launched task has failed, every video the limit allows is
\* still launched, every launched task returns, and the function gets through
\* its flush check and returns.
C12_FailureDoesNotStopSiblings ==
  (\E w \in Tasks : Returned(w) /\ res[w].err # "")
  ~> (/\ pc["pregen"] = "pgDone"
      /\ processed = Min(PreGenerate, Len(Videos))
      /\ Cardinality(Tasks) = processed
      /\ \A w \in Tasks : Returned(w))

\* The function has returned; one task failed on its signature and a sibling
\* generated its thumbnail.
C12_Witness ==
  /\ pc["pregen"] = "pgDone"
  /\ \E w \in Tasks : res[w].err = "signature"
  /\ \E w \in Tasks : res[w].via = "generated"

\* C13 as stated: the function takes up its flush check only when every
\* launched task has returned, flushes only if the flag is set, and when it
\* returns from a flush whose write succeeded, no call being in progress and
\* the saver being between two ticks, cache.json holds every entry its tasks
\* stored and the flag is false.
C13_FinalFlush ==
  [][/\ (pc["pregen"] = "pgWait" /\ pc'["pregen"] # "pgWait")
        => \A w \in Tasks : Returned(w)
     /\ (pc["pregen"] = "chkRead" /\ pc'["pregen"] = "saveEntry") => thumbnailChanged
     /\ (/\ pc["pregen"] = "clear" /\ pc'["pregen"] = "pgDone"
         /\ \A w \in Workers : pc[w] \in {"idle", "done"}
         /\ \A s \in Savers : pc[s] \in {"tick", "off"})
        => /\ cacheJson'.state = "ok"
           /\ StoredByTasks \subseteq cacheJson'.text
           /\ ~thumbnailChanged']_vars

Succeeded == {w \in Workers : Returned(w) /\ res[w].err = ""}

\* C21: concurrent first-time calls on videos of one signature hash: all the
\* calls that succeed return one and the same path, cacheDir/<hash>.jpg; the
\* map never holds more than one entry for them, and once every call has
\* returned and one succeeded, it holds exactly one, hash -> that path.
C21_SameHashOneEntry ==
  /\ \A w1 \in Succeeded, w2 \in Succeeded : res[w1].path = res[w2].path
  /\ \A w \in Succeeded : res[w].path = ThumbPath(GetSignatureHash(GetVideoSignature(video[w])))
  /\ Cardinality(DOMAIN ThumbnailCache) <= 1
  /\ \A h \in DOMAIN ThumbnailCache : ThumbnailCache[h] = ThumbPath(h)
  /\ ((\A w \in Workers : pc[w] \in {"idle", "done"}) /\ Succeeded # {})
     => /\ Cardinality(DOMAIN ThumbnailCache) = 1
        /\ \A w \in Succeeded : ThumbnailCache[sigHash(w)] = res[w].path

\* a.mp4 and b.mp4 were both extracted, redundantly, in overlapping calls,
\* and every call has returned.
C21_Witness ==
  /\ budget.calls = 0
  /\ \A w \in Workers : pc[w] = "done"
  /\ \E w1 \in Succeeded, w2 \in Succeeded :
       /\ video[w1] = "a.mp4" /\ video[w2] = "b.mp4"
       /\ gen[w1] = "ffmpeg" /\ gen[w2] = "ffmpeg"
       /\ res[w1].via = "generated" /\ res[w2].via = "generated"

InCall(w) == pc[w] \notin {"idle", "done"}
HoldsSlot(w) == pc[w] \in {"probe", "probeHung", "ffmpegStart", "extracting", "hung"}

\* C22 as stated: every call of GetOrCreateThumbnail eventually returns, and
\* every slot taken is eventually given back, also when ffprobe or ffmpeg does
\* not complete on its own.
C22_EveryCallReturns ==
  /\ \A w \in Workers : InCall(w) ~> Returned(w)
  /\ \A w \in Workers : HoldsSlot(w) ~> ~HoldsSlot(w)

\* C24: a probe that hangs is cut off by its timeout; the call then goes on to
\* ffmpeg with the default seek offset of 3.0 seconds, the probe's failure is
\* not a result of the call, and the only error such a call can return is
\* that of ffmpeg.
C24_ProbeTimeoutProceeds ==
  /\ [][\A w \in Workers :
          pc[w] = "probeHung" /\ pc'[w] # "probeHung"
          => /\ pc'[w] = "ffmpegStart"
             /\ seekTime'[w] = DefaultSeek
             /\ res'[w] = NoResult
             /\ gen'[w] = "slot"
             /\ ThumbnailSemaphore' = ThumbnailSemaphore]_vars
  /\ [][\A w \in Workers :
          pc[w] = "ffmpegStart" /\ pc'[w] # "ffmpegStart"
          => /\ gen'[w] = "ffmpeg"
             /\ seekTime'[w] = DefaultSeek
             /\ res'[w].err \in {"", "ffmpeg"}]_vars
  /\ \A w \in Workers : (pc[w] = "probeHung") ~> (gen[w] = "ffmpeg")

\* The probe of a call has timed out and the call is about to start ffmpeg
\* with the default offset, while another call's probe still hangs.
C24_Witness ==
  \E w \in Workers :
    /\ pc[w] = "ffmpegStart"
    /\ seekTime[w] = DefaultSeek
    /\ res[w] = NoResult
    /\ \E o \in Workers \ {w} : pc[o] = "probeHung"

\* C23: with ffprobe and ffmpeg ending and fair scheduling, every goroutine
\* waiting for a slot gets one, whether it serves a request or is a task of
\* the pre-generation; in the end every call has returned and the
\* pre-generation is over: nothing is blocked for ever.
C23_WaiterGetsSlot ==
  /\ \A w \in Workers : (pc[w] = "semAcquire") ~> (gen[w] = "slot")
  /\ <>[](/\ \A w \in Workers : ~InCall(w)
          /\ pc["pregen"] = "pgDone"
          /\ ThumbnailSemaphore = 0)

\* Both slots are taken, one of them by a task of the pre-generation, and a
\* request waits for a slot.
C23_Witness ==
  /\ Cardinality(InSlot) = MaxConcurrent
  /\ \E t \in InSlot : task[t]
  /\ \E w \in Workers : pc[w] = "semAcquire" /\ ~task[w]

InFile(h) == cacheJson.state = "ok" /\ \E member \in cacheJson.text : member[1] = h

\* C25 as stated: an entry put into the map is eventually in a written
\* cache.json, the process running on, its ticker firing and the file being
\* writable, with no further put needed.
C25_EventuallyPersisted ==
  \A h \in Hashes : (h \in DOMAIN ThumbnailCache) ~> InFile(h)

Exits == pc["init"] # "exited" /\ pc'["init"] = "exited"

\* C26 as stated: when the process shuts down with the dirty flag set, a last
\* flush is attempted before it exits; cache.json being writable, the file
\* the process leaves behind then holds the map.
C26_FlushOnShutdown ==
  [][(Exits /\ thumbnailChanged)
     => (cacheJson'.state = "ok" /\ cacheJson'.text = Marshal(ThumbnailCache))]_vars

\* C27: a call that finds its hash in the map and the stored file on disk
\* returns the stored path, and none of its steps changes the map, the dirty
\* flag, the slots, the thumbnail files or cache.json; it never took a slot
\* nor started the probe or the extractor, and it returns holding no lock.
C27_HitChangesNothing ==
  [][\A w \in Workers :
       /\ (\/ pc'[w] # pc[w] /\ pc'[w] \in {"cacheRLock", "cacheRead", "statCached"}
           \/ pc[w] = "statCached" /\ pc'[w] = "done")
          => /\ UNCHANGED <<ThumbnailCache, thumbnailChanged, ThumbnailSemaphore,
                           files, cacheJson>>
             /\ gen'[w] = "no"
       /\ (pc[w] = "cacheRead" /\ pc'[w] = "statCached")
          => cachedPath'[w] = [exists |-> TRUE, path |-> ThumbnailCache[sigHash(w)]]
       /\ (pc[w] = "statCached" /\ pc'[w] # pc[w])
          => IF files[cachedPath[w].path] # "absent"
             THEN /\ pc'[w] = "done"
                  /\ res'[w] = [err |-> "", path |-> cachedPath[w].path, via |-> "hit"]
                  /\ ThumbnailCacheMutex'.writer # w
                  /\ w \notin ThumbnailCacheMutex'.readers
             ELSE pc'[w] # "done"]_vars

\* A call returned on a hit while the flag was still set by the put that had
\* stored the entry.
C27_Witness ==
  \E w \in Workers :
    /\ Returned(w)
    /\ res[w].via = "hit"
    /\ gen[w] = "no"
    /\ res[w].path = ThumbnailCache[sigHash(w)]
    /\ thumbnailChanged

Twins == {"a.mp4", "b.mp4"}

\* C28: after a call for one of two byte-identical videos returned a path, a
\* call for the other one (another name, another modification time) returns
\* the same path without invoking the extractor, and adds no entry: the map
\* has the one entry of their signature, as before.
C28_SharedAcrossIdenticalVideos ==
  \A w \in Workers :
    (/\ Returned(w)
     /\ last.video \in Twins /\ video[w] \in Twins \ {last.video}
     /\ last.res.err = "")
    => /\ res[w].err = ""
       /\ res[w].path = last.res.path
       /\ gen[w] = "no"
       /\ DOMAIN ThumbnailCache = DOMAIN last.cache
       /\ Cardinality({h \in DOMAIN ThumbnailCache :
                         h \in {GetSignatureHash(GetVideoSignature(v)) : v \in Twins}}) = 1

\* The thumbnail was generated for a.mp4 and the call for b.mp4 has returned
\* it on a hit.
C28_Witness ==
  \E w \in Workers :
    /\ Returned(w)
    /\ last.video = "a.mp4" /\ last.res.via = "generated"
    /\ video[w] = "b.mp4" /\ res[w].via = "hit"
    /\ res[w].path = last.res.path

\* C29: once loaded, the map only grows: no step of a lookup, a disk
\* recovery, a generation (failed or not), a flush or the pre-generation
\* removes a key; a key that is there stays, its path at most replaced.
C29_CacheOnlyGrows ==
  [][DOMAIN ThumbnailCache \subseteq DOMAIN ThumbnailCache']_vars

\* The map was loaded with one entry under an old path; that entry has been
\* overwritten with the regenerated path and a second key has been added.
C29_Witness ==
  /\ Cardinality(DOMAIN ThumbnailCache) = 2
  /\ \E h \in OldHashes :
       /\ cacheJson.state = "ok"
       /\ <<h, OldPath(h)>> \in cacheJson.text
       /\ h \in DOMAIN ThumbnailCache
       /\ ThumbnailCache[h] = ThumbPath(h)

Steps(p) == pc'[p] # pc[p]
ReadLocked(p) == p \in ThumbnailCacheMutex.readers \/ ThumbnailCacheMutex.writer = p
WriteLocked(p) == ThumbnailCacheMutex.writer = p
\* A put is about to write the flag under the write lock while a flusher is
\* about to read or clear it.
FlagRace ==
  /\ \E w \in Workers : pc[w] \in {"diskPut", "put"}
  /\ \E f \in Flushers : pc[f] \in {"saveEntry", "clear"}

\* C30 as stated: every read of the map and of the dirty flag is made holding
\* the cache lock (read or write), every write holding the write lock, in
\* saveThumbnailCache too, so that a flush never reads or clears the flag
\* while a put writes it.
C30_AllAccessLocked ==
  /\ [][/\ \A w \in Workers : (pc[w] = "cacheRead" /\ Steps(w)) => ReadLocked(w)
        /\ \A w \in Workers : (pc[w] \in {"diskPut", "put"} /\ Steps(w)) => WriteLocked(w)
        /\ \A f \in Flushers :
             (pc[f] \in {"chkRead", "saveEntry", "marshal"} /\ Steps(f)) => ReadLocked(f)
        /\ \A f \in Flushers : (pc[f] = "clear" /\ Steps(f)) => WriteLocked(f)]_vars
  /\ []~FlagRace

BeingWritten(path) ==
  \E o \in Workers : pc[o] = "extracting" /\ thumbnailPath(o) = path

\* C31 as stated: no call stores or returns cacheDir/<hash>.jpg while the
\* extraction of another call into that file is still in progress.
C31_NoHitOnFileBeingWritten ==
  [][\A w \in Workers :
       /\ (Returns(w) /\ res'[w].err = "" /\ res'[w].via \in {"disk", "hit"})
          => ~BeingWritten(res'[w].path)
       /\ (pc[w] = "diskPut" /\ pc'[w] # pc[w])
          => ~BeingWritten(thumbnailPath(w))]_vars

Keys(text) == {member[1] : member \in text}
\* The map only grows: of two snapshots the one with fewer keys is the older.
Older(s1, s2) == Keys(s1) \subseteq Keys(s2) /\ Keys(s1) # Keys(s2)

\* C32 as stated: what a flush writes is the map as it stood at one instant,
\* taken with the read lock held and no put half applied; and a flush does
\* not replace a written cache.json by an older snapshot with the dirty flag
\* then reading false.
C32_SnapshotAtomicAndNewest ==
  [][\A f \in Flushers :
       /\ (pc[f] = "marshal" /\ Steps(f))
          => /\ data'[f] = Marshal(ThumbnailCache)
             /\ f \in ThumbnailCacheMutex.readers
             /\ ThumbnailCacheMutex.writer = "none"
             /\ \A w \in Workers : pc[w] \notin {"diskPut", "put"}
       /\ (pc[f] = "write" /\ pc'[f] = "clear")
          => /\ cacheJson' = [state |-> "ok", text |-> data[f]]
             /\ (cacheJson.state = "ok" /\ ~thumbnailChanged')
                => ~Older(data[f], cacheJson.text)]_vars

\* C33: every put of GetOrCreateThumbnail stores hash -> cacheDir/<hash>.jpg
\* under the hash of its own video and touches no other key; no file having
\* been removed from outside during the call, the file is there when the
\* entry is stored; the put of a generation comes only after the extractor ran
\* and reported success.
C33_EntryFormAndFile ==
  [][\A w \in Workers :
       (pc[w] \in {"diskPut", "put"} /\ Steps(w))
       => /\ ThumbnailCache' = [k \in DOMAIN ThumbnailCache \cup {sigHash(w)} |->
                                  IF k = sigHash(w) THEN ThumbPath(k)
                                  ELSE ThumbnailCache[k]]
          /\ res'[w].path = ThumbPath(sigHash(w))
          /\ w \notin tampered => files[ThumbPath(sigHash(w))] # "absent"
          /\ pc[w] = "put" => (gen[w] = "ffmpeg" /\ res[w].err = "")]_vars

\* One call has stored and returned a thumbnail it found on disk, another one
\* a thumbnail it generated.
C33_Witness ==
  /\ \E w \in Workers : Returned(w) /\ res[w].via = "disk"
  /\ \E w \in Workers : Returned(w) /\ res[w].via = "generated"
  /\ Cardinality(DOMAIN ThumbnailCache) = 2
  /\ \A h \in DOMAIN ThumbnailCache : ThumbnailCache[h] = ThumbPath(h)

\* ------------------------------------------------------------------------
\* The HTTP handlers. A path is the sequence of its characters, so that the
\* string operations of the handlers (HasPrefix, Contains, Clean, Join,
\* PathUnescape) are done character by character as the library does them.

MaxSegments == 3
MaxEscapes == 2

Slash == "/"
Dot == "."
Percent == "%"
DotDot == <<Dot, Dot>>

\* localpics.go:607 and 603: what the handlers get as inputDir, and the
\* directories and files around it. "/d/vp" is a sibling of "/d/v".
inputDir == <<Slash, "d", Slash, "v">>
Dirs ==
  {<<Slash>>, <<Slash, "d">>, inputDir, <<Slash, "d", Slash, "v", "p">>,
   <<Slash, "d", Slash, "w">>, inputDir \o <<Slash, "w">>}
RegularFiles ==
  {inputDir \o <<Slash, "a">>,
   inputDir \o <<Slash, "w", Slash, "a">>,
   <<Slash, "d", Slash, "v", "p", Slash, "a">>,
   <<Slash, "d", Slash, "w", Slash, "a">>,
   <<Slash, "d", Slash, "a">>}

\* strings.HasPrefix (line 759).
HasPrefix(str, prefix) ==
  /\ Len(prefix) <= Len(str)
  /\ SubSeq(str, 1, Len(prefix)) = prefix

\* strings.Contains (localpics.go:419).
Contains(str, sub) ==
  \E i \in 1..(Len(str) - Len(sub) + 1) : SubSeq(str, i, i + Len(sub) - 1) = sub

HexDigits == {"2", "5", "a", "d", "e", "f"}

\* The byte a valid %xx escape stands for; "?" is any byte that is neither a
\* separator, a dot nor a percent sign.
Unhex(h1, h2) ==
  IF <<h1, h2>> = <<"2", "e">> THEN Dot
  ELSE IF <<h1, h2>> = <<"2", "f">> THEN Slash
  ELSE IF <<h1, h2>> = <<"2", "5">> THEN Percent
  ELSE "?"

\* url.PathUnescape (line 748): every %xx is replaced once; a "%" that is not
\* followed by two hex digits is an error.
RECURSIVE PathUnescape(_)
PathUnescape(str) ==
  IF str = <<>> THEN [err |-> FALSE, out |-> <<>>]
  ELSE IF Head(str) = Percent
       THEN IF Len(str) >= 3 /\ str[2] \in HexDigits /\ str[3] \in HexDigits
            THEN LET r == PathUnescape(SubSeq(str, 4, Len(str)))
                 IN  [err |-> r.err,
                      out |-> IF r.err THEN <<>> ELSE <<Unhex(str[2], str[3])>> \o r.out]
            ELSE [err |-> TRUE, out |-> <<>>]
       ELSE LET r == PathUnescape(Tail(str))
            IN  [err |-> r.err,
                 out |-> IF r.err THEN <<>> ELSE <<Head(str)>> \o r.out]

\* The elements of a path between its separators (empty elements included).
RECURSIVE SplitPath(_)
SplitPath(str) ==
  IF \A i \in 1..Len(str) : str[i] # Slash THEN <<str>>
  ELSE LET i == CHOOSE j \in 1..Len(str) :
                  str[j] = Slash /\ \A k \in 1..(j - 1) : str[k] # Slash
       IN  <<SubSeq(str, 1, i - 1)>> \o SplitPath(SubSeq(str, i + 1, Len(str)))

RECURSIVE JoinPath(_)
JoinPath(elems) ==
  IF elems = <<>> THEN <<>>
  ELSE IF Len(elems) = 1 THEN elems[1]
  ELSE elems[1] \o <<Slash>> \o JoinPath(Tail(elems))

\* filepath.Clean, element by element: empty and "." elements are dropped, a
\* ".." removes the element before it, is dropped at the root and is kept at
\* the start of a relative path.
RECURSIVE CleanElems(_, _, _)
CleanElems(elems, out, rooted) ==
  IF elems = <<>> THEN out
  ELSE LET e == Head(elems)
       IN  IF e = <<>> \/ e = <<Dot>>
           THEN CleanElems(Tail(elems), out, rooted)
           ELSE IF e = DotDot
           THEN IF out # <<>> /\ out[Len(out)] # DotDot
                THEN CleanElems(Tail(elems), SubSeq(out, 1, Len(out) - 1), rooted)
                ELSE IF rooted
                THEN CleanElems(Tail(elems), out, rooted)
                ELSE CleanElems(Tail(elems), Append(out, e), rooted)
           ELSE CleanElems(Tail(elems), Append(out, e), rooted)

\* filepath.Clean (localpics.go:418; inside filepath.Join and filepath.Abs).
Clean(str) ==
  IF str = <<>> THEN <<Dot>>
  ELSE LET rooted == Head(str) = Slash
           elems == CleanElems(SplitPath(str), <<>>, rooted)
       IN  IF rooted THEN <<Slash>> \o JoinPath(elems)
           ELSE IF elems = <<>> THEN <<Dot>>
           ELSE JoinPath(elems)

\* filepath.Join (line 754, localpics.go:424): empty arguments are ignored,
\* the rest is joined with separators and cleaned.
Join(dir, rest) ==
  IF dir = <<>> /\ rest = <<>> THEN <<>>
  ELSE IF rest = <<>> THEN Clean(dir)
  ELSE IF dir = <<>> THEN Clean(rest)
  ELSE Clean(dir \o <<Slash>> \o rest)

\* filepath.Abs (lines 757-758) of a path that is absolute already.
Abs(path) == Clean(path)

\* os.Stat (line 765, localpics.go:427).
Exists(path) == path \in calc.dirs \cup calc.fs

\* What a client may put between the separators of a request path.
PathElems(extra) ==
  {DotDot, <<Dot>>, <<"v", "p">>, <<"w">>, <<"a">>} \cup extra
PlainPaths(extra) ==
  {JoinPath(elems) :
     elems \in UNION {[1..n -> PathElems(extra)] : n \in 0..MaxSegments}}

\* Percent-encoding as a client does it (static/js/cardView.js:317).
RECURSIVE Escape(_)
Escape(str) ==
  IF str = <<>> THEN <<>>
  ELSE (IF Head(str) = Dot THEN <<Percent, "2", "e">>
        ELSE IF Head(str) = Slash THEN <<Percent, "2", "f">>
        ELSE IF Head(str) = Percent THEN <<Percent, "2", "5">>
        ELSE <<Head(str)>>) \o Escape(Tail(str))

RECURSIVE EscapeTimes(_, _)
EscapeTimes(str, n) == IF n = 0 THEN str ELSE EscapeTimes(Escape(str), n - 1)

\* The part of the request line after the handler's pattern.
RawPaths(extra) ==
  {EscapeTimes(p, n) : p \in PlainPaths(extra), n \in 0..MaxEscapes}

\* http.Handle and ListenAndServe (localpics.go:603, 607, 616): the server
\* decodes the request line once into r.URL.Path (400 when it cannot), and
\* its multiplexer answers a path that is not clean with a redirect instead
\* of calling the handler, unless the method is CONNECT.
Routed(pattern, raw, method) ==
  LET u == PathUnescape(raw)
      path == pattern \o u.out
      tail == IF path[Len(path)] = Slash /\ Clean(path) # <<Slash>>
                THEN <<Slash>> ELSE <<>>
  IN  IF u.err THEN [status |-> 400, path |-> <<>>]
      ELSE IF method # "CONNECT" /\ Clean(path) \o tail # path
        THEN [status |-> 301, path |-> <<>>]
      ELSE [status |-> 0, path |-> path]

ThumbnailPattern == <<Slash, "t", Slash>>
DeletePattern == <<Slash, "x", Slash>>

NoRequest ==
  [op |-> "http", handler |-> "none", raw |-> <<>>, method |-> "GET",
   handled |-> FALSE, status |-> 0, target |-> <<>>, stat |-> <<>>,
   call |-> <<>>, removed |-> <<>>, fs |-> RegularFiles, dirs |-> Dirs,
   allowDelete |-> FALSE]

\* ThumbnailHandler, lines 739-780, for one request; genOk is whether
\* GetOrCreateThumbnail succeeds for a regular file.
ThumbnailRequest(raw, genOk) ==
  LET routed == Routed(ThumbnailPattern, raw, "GET")
      videoPathBase == SubSeq(routed.path, Len(ThumbnailPattern) + 1, Len(routed.path))
      decoded == PathUnescape(videoPathBase)
      videoPath == Join(inputDir, decoded.out)
      absInputDir == Abs(inputDir)
      absVideoPath == Abs(videoPath)
      req == [NoRequest EXCEPT !.handler = "thumbnail", !.raw = raw,
                               !.fs = calc.fs, !.dirs = calc.dirs,
                               !.allowDelete = calc.allowDelete]
  IN  /\ calc.op = "http" /\ calc.handler = "none"
      /\ calc' =
           IF routed.status # 0 THEN [req EXCEPT !.status = routed.status]
           ELSE IF ~ThumbnailEnabled
             THEN [req EXCEPT !.handled = TRUE, !.status = 404]
           ELSE IF decoded.err
             THEN [req EXCEPT !.handled = TRUE, !.status = 400]
           ELSE IF ~HasPrefix(absVideoPath, absInputDir)
             THEN [req EXCEPT !.handled = TRUE, !.status = 400, !.target = videoPath]
           ELSE IF ~Exists(videoPath)
             THEN [req EXCEPT !.handled = TRUE, !.status = 404,
                              !.target = videoPath, !.stat = videoPath]
           ELSE IF videoPath \in calc.fs /\ genOk
             THEN [req EXCEPT !.handled = TRUE, !.status = 200, !.target = videoPath,
                              !.stat = videoPath, !.call = videoPath]
           ELSE [req EXCEPT !.handled = TRUE, !.status = 500, !.target = videoPath,
                            !.stat = videoPath, !.call = videoPath]
      /\ UNCHANGED progVars

\* A malformed escape, to reach the error of line 749.
BadEscape == <<Percent, "v">>

\* The response has been written; the server takes the next request.
ResponseSent ==
  /\ calc.op = "http" /\ calc.handler # "none"
  /\ calc' = [NoRequest EXCEPT !.fs = calc.fs, !.dirs = calc.dirs,
                               !.allowDelete = calc.allowDelete]
  /\ UNCHANGED progVars

InitThumb ==
  /\ \E enable \in BOOLEAN :
       InitThumbnails(enable, TRUE, NoJson, NoFiles, 0, NoPage,
                      [calls |-> 0, ticks |-> 0, deletes |-> 0])
  /\ calc = NoRequest

NextThumb ==
  \/ \E raw \in RawPaths({BadEscape}), genOk \in BOOLEAN : ThumbnailRequest(raw, genOk)
  \/ ResponseSent

SpecThumb == InitThumb /\ [][NextThumb]_vars


\* localpics.go:402 read without the comparison.
AnyMethod(method) == TRUE

\* localpics.go:402.
IsDelete(method) == method = "DELETE"

Methods == {"DELETE", "GET", "CONNECT"}

\* A file name with two dots inside it.
DottedName == <<"a", Dot, Dot, "a">>

\* os.Remove (localpics.go:434) of an existing path: a regular file goes, a
\* directory goes when nothing is left in it.
Removable(path) ==
  \/ path \in calc.fs
  \/ /\ path \in calc.dirs
     /\ \A q \in calc.fs \cup calc.dirs : ~HasPrefix(q, path \o <<Slash>>)
     /\ path # <<Slash>>

\* FileDeleteHandler, localpics.go:394-441, for one request; removeOk is
\* whether the operating system lets the process remove the path.
DeleteRequest(raw, method, removeOk) ==
  LET routed == Routed(DeletePattern, raw, method)
      filename == SubSeq(routed.path, Len(DeletePattern) + 1, Len(routed.path))
      cleanPath == Clean(filename)
      fullPath == Join(inputDir, cleanPath)
      req == [NoRequest EXCEPT !.handler = "delete", !.raw = raw, !.method = method,
                               !.fs = calc.fs, !.dirs = calc.dirs,
                               !.allowDelete = calc.allowDelete]
  IN  /\ calc.op = "http" /\ calc.handler = "none"
      /\ calc' =
           IF routed.status # 0 THEN [req EXCEPT !.status = routed.status]
           ELSE IF ~calc.allowDelete
             THEN [req EXCEPT !.handled = TRUE, !.status = 403]
           ELSE IF ~IsDelete(method)
             THEN [req EXCEPT !.handled = TRUE, !.status = 405]
           ELSE IF filename = <<>>
             THEN [req EXCEPT !.handled = TRUE, !.status = 400]
           ELSE IF Contains(cleanPath, DotDot)
             THEN [req EXCEPT !.handled = TRUE, !.status = 400]
           ELSE IF ~Exists(fullPath)
             THEN [req EXCEPT !.handled = TRUE, !.status = 404,
                              !.target = fullPath, !.stat = fullPath]
           ELSE IF removeOk /\ Removable(fullPath)
             THEN [req EXCEPT !.handled = TRUE, !.status = 200,
                              !.target = fullPath, !.stat = fullPath,
                              !.removed = fullPath,
                              !.fs = calc.fs \ {fullPath},
                              !.dirs = calc.dirs \ {fullPath}]
           ELSE [req EXCEPT !.handled = TRUE, !.status = 500,
                            !.target = fullPath, !.stat = fullPath]
      /\ UNCHANGED progVars

\* main (localpics.go:601-604) registers the handler with allowDelete = true;
\* the handler itself also takes false.
InitDelete ==
  /\ InitThumbnails(FALSE, TRUE, NoJson, NoFiles, 0, NoPage,
                    [calls |-> 0, ticks |-> 0, deletes |-> 0])
  /\ \E allow \in BOOLEAN : calc = [NoRequest EXCEPT !.allowDelete = allow]

NextDelete ==
  \/ \E raw \in RawPaths({DottedName, <<>>}), method \in Methods, removeOk \in BOOLEAN :
       DeleteRequest(raw, method, removeOk)
  \/ ResponseSent

SpecDelete == InitDelete /\ [][NextDelete]_vars


\* ------------------------------------------------------------------------
\* scanDirectory and its page files (localpics.go:185-322).

MaxScan == 5
MaxPages == 3

\* localpics.go:175, scaled down from 1000.
filesPerPage == 2

\* Two of the eight categories of localpics.go:192.
Categories == {"image", "video"}

\* What the walk meets: a file of a category, or a file that lines 214-217
\* skip (index.html, *.json).
Kinds == Categories \cup {"json"}

Walks == UNION {[1..n -> Kinds] : n \in 0..MaxScan}

\* The name of the i-th file of the walk; names sort against the walk order.
FileName(i) == MaxScan + 1 - i

Absent == <<0>>
PageNames == Categories \X (1..MaxPages)

\* An output directory without page files, and one that a former scan of a
\* larger directory has written into (main uses config.OutputDir as it finds
\* it, localpics.go:577-582).
EmptyOutputDir == [name \in PageNames |-> Absent]
UsedOutputDir == [EmptyOutputDir EXCEPT ![<<"video", 2>>] = <<1>>]
OutputDirs == {EmptyOutputDir, UsedOutputDir}

NoMeta == [category \in {} |-> 0]

\* Lines 306-310: the page is sorted by name before it is written.
SortedByName(page) == SortSeq(page, LAMBDA a, b : FileName(a) < FileName(b))

\* Line 288.
TotalPagesOf(totalCount) == (totalCount + filesPerPage - 1) \div filesPerPage

\* writePaginatedJSON, lines 306-322, into the directory "out".
writePaginatedJSON(out, page, category, pageNum, writeOk) ==
  IF writeOk /\ <<category, pageNum>> \in PageNames
    THEN [out EXCEPT ![<<category, pageNum>>] = SortedByName(page)]
    ELSE out

\* walkFn, lines 196-249, on the next file of the walk.
Visit(writeOk) ==
  /\ calc.op = "scan" /\ calc.phase = "walk" /\ calc.pos <= Len(calc.walk)
  /\ LET fileType == calc.walk[calc.pos]
         page == Append(calc.categoryFiles[fileType], calc.pos)
         pageNum == calc.categoryPageNum[fileType]
     IN  calc' =
           IF fileType \notin Categories
             THEN [calc EXCEPT !.pos = @ + 1]
           ELSE IF Len(page) >= filesPerPage
             THEN [calc EXCEPT !.pos = @ + 1,
                               !.categoryTotalCount[fileType] = @ + 1,
                               !.out = writePaginatedJSON(@, page, fileType, pageNum, writeOk),
                               !.writeError = @ \/ ~writeOk,
                               !.categoryFiles[fileType] = <<>>,
                               !.categoryPageNum[fileType] = @ + 1]
           ELSE [calc EXCEPT !.pos = @ + 1,
                             !.categoryTotalCount[fileType] = @ + 1,
                             !.categoryFiles[fileType] = page]
  /\ UNCHANGED progVars

\* Lines 198-200 and 251-254: the walk reports an error and the scan returns
\* it.
WalkError ==
  /\ calc.op = "scan" /\ calc.phase = "walk" /\ calc.pos <= Len(calc.walk)
  /\ calc' = [calc EXCEPT !.phase = "failed"]
  /\ UNCHANGED progVars

\* The walk is over.
WalkDone ==
  /\ calc.op = "scan" /\ calc.phase = "walk" /\ calc.pos > Len(calc.walk)
  /\ calc' = [calc EXCEPT !.phase = "rest"]
  /\ UNCHANGED progVars

\* Lines 274-281, one round of the loop over categoryFiles; the order of the
\* rounds is the map's.
WriteRemaining(fileType, writeOk) ==
  /\ calc.op = "scan" /\ calc.phase = "rest"
  /\ fileType \in Categories \ calc.ranged
  /\ calc' =
       IF Len(calc.categoryFiles[fileType]) > 0
         THEN [calc EXCEPT !.ranged = @ \cup {fileType},
                           !.out = writePaginatedJSON(@, calc.categoryFiles[fileType],
                                     fileType, calc.categoryPageNum[fileType], writeOk),
                           !.writeError = @ \/ ~writeOk]
         ELSE [calc EXCEPT !.ranged = @ \cup {fileType}]
  /\ UNCHANGED progVars

\* Lines 284-302: the metadata of the categories that have files, and
\* writeMetaJSON.
WriteMeta(writeOk) ==
  /\ calc.op = "scan" /\ calc.phase = "rest" /\ calc.ranged = Categories
  /\ LET counted == {c \in Categories : calc.categoryTotalCount[c] > 0}
         metaData == [c \in counted |->
                        [TotalFiles |-> calc.categoryTotalCount[c],
                         FilesPerPage |-> filesPerPage,
                         TotalPages |-> TotalPagesOf(calc.categoryTotalCount[c])]]
     IN  calc' = IF writeOk THEN [calc EXCEPT !.phase = "done", !.meta = metaData]
                 ELSE [calc EXCEPT !.phase = "failed", !.writeError = TRUE]
  /\ UNCHANGED progVars

\* Lines 187-194 for one walk and one output directory.
InitScan ==
  /\ InitThumbnails(FALSE, TRUE, NoJson, NoFiles, 0, NoPage,
                    [calls |-> 0, ticks |-> 0, deletes |-> 0])
  /\ \E walk \in Walks, out \in OutputDirs :
       calc = [op |-> "scan", phase |-> "walk", walk |-> walk, pos |-> 1,
               categoryFiles |-> [c \in Categories |-> <<>>],
               categoryPageNum |-> [c \in Categories |-> 1],
               categoryTotalCount |-> [c \in Categories |-> 0],
               ranged |-> {}, out |-> out, fresh |-> out = EmptyOutputDir,
               meta |-> NoMeta, writeError |-> FALSE]

NextScan ==
  \/ \E writeOk \in BOOLEAN : Visit(writeOk)
  \/ WalkError
  \/ WalkDone
  \/ \E fileType \in Categories, writeOk \in BOOLEAN : WriteRemaining(fileType, writeOk)
  \/ \E writeOk \in BOOLEAN : WriteMeta(writeOk)

SpecScan == InitScan /\ [][NextScan]_vars


\* Lines 871-896 when os.MkdirAll fails and a cache.json of an earlier run is
\* in the directory's place or unreadable, next to the states of Init.
InitMkdir ==
  \/ Init
  \/ /\ \E json \in InitialJsons :
          InitThumbnails(TRUE, FALSE, json, NoFiles, 1, FirstPage, Budget(0))
     /\ calc = NoCalc

SpecMkdir == InitMkdir /\ [][Next]_vars

\* InitThumbnails was called with enableThumbnails = true (the limit it was
\* given is configured) and left the subsystem disabled: MkdirAll failed.
DisabledByMkdir == ~ThumbnailEnabled /\ PreGenerate > 0

\* C34: when InitThumbnails(true, ...) cannot create the cache directory the
\* subsystem is disabled: cache.json is not loaded, no saver runs, every call
\* of GetOrCreateThumbnail returns the disabled error without doing anything,
\* and PreGenerateThumbnails returns without launching a task.
C34_MkdirFailureDisables ==
  DisabledByMkdir
  => /\ ThumbnailCache = EmptyMap
     /\ \A s \in Savers : pc[s] = "off"
     /\ \A w \in Workers :
          /\ pc[w] \in {"idle", "done"}
          /\ Returned(w) => (res[w] = Err("disabled") /\ gen[w] = "no")
          /\ ~task[w]
     /\ pc["pregen"] \in {"pgInit", "pgDone"}
     /\ processed = 0
     /\ ThumbnailSemaphore = 0
     /\ ~thumbnailChanged
     /\ ThumbnailCacheMutex = [readers |-> {}, writer |-> "none"]

\* The directory could not be created although a cache.json with an entry is
\* there; the pre-generation has returned and two calls have failed.
C34_Witness ==
  /\ DisabledByMkdir
  /\ cacheJson.state = "ok" /\ cacheJson.text # {}
  /\ pc["pregen"] = "pgDone"
  /\ budget.calls = 0
  /\ \E w \in Workers : Returned(w) /\ video[w] = "gone.mp4"

\* The path lies in the input directory: it is the directory or below it.
Inside(path) == path = inputDir \/ HasPrefix(path, inputDir \o <<Slash>>)

\* C35: a request whose path resolves outside inputDir is answered 400 by
\* ThumbnailHandler, which neither stats the path nor passes it to
\* GetOrCreateThumbnail.
C35_OnlyPathsInside ==
  (calc.op = "http" /\ calc.handler = "thumbnail" /\ calc.handled
     /\ ThumbnailEnabled /\ calc.target # <<>> /\ ~Inside(calc.target))
  => (calc.status = 400 /\ calc.stat = <<>> /\ calc.call = <<>>)

\* A thumbnail was made and served for the file "a" of the sibling directory.
C35_Counterexample ==
  /\ calc.op = "http" /\ calc.handler = "thumbnail"
  /\ calc.call = <<Slash, "d", Slash, "v", "p", Slash, "a">>
  /\ calc.status = 200

\* The file name of a delete request as the handler sees it in r.URL.Path.
RequestedName(raw) == PathUnescape(raw).out

ScanSucceeded == calc.op = "scan" /\ calc.phase = "done" /\ ~calc.writeError

\* The files of the walk that belong to the category.
Scanned(category) == {i \in 1..Len(calc.walk) : calc.walk[i] = category}

\* The numbers of the page files of the category in the output directory.
PagesOf(category) == {n \in 1..MaxPages : calc.out[<<category, n>>] # Absent}

Elems(page) == {page[i] : i \in 1..Len(page)}

\* What C37 says of the page files and of meta.json.
PagesAsStated ==
  /\ \A c \in Categories :
       LET pages == PagesOf(c)
           total == IF c \in DOMAIN calc.meta THEN calc.meta[c].TotalPages ELSE 0
       IN  /\ \A i \in Scanned(c) :
                Cardinality({n \in pages : i \in Elems(calc.out[<<c, n>>])}) = 1
           /\ \A n \in pages :
                /\ Len(calc.out[<<c, n>>]) \in 1..filesPerPage
                /\ Len(calc.out[<<c, n>>]) < filesPerPage => n = total
           /\ pages = 1..total
  /\ DOMAIN calc.meta = {c \in Categories : Scanned(c) # {}}
  /\ \A c \in DOMAIN calc.meta :
       /\ calc.meta[c].TotalFiles = Cardinality(Scanned(c))
       /\ calc.meta[c].TotalPages * filesPerPage >= Cardinality(Scanned(c))
       /\ (calc.meta[c].TotalPages - 1) * filesPerPage < Cardinality(Scanned(c))

\* C37: after a scan without a write error every scanned file of a category
\* is in exactly one page file of the category, every page holds at most
\* filesPerPage files and only the last one fewer, the page files are those
\* numbered 1..TotalPages, and meta.json has TotalFiles and the rounded-up
\* TotalPages for exactly the categories that have files.
C37_PagesCoverScan == ScanSucceeded => PagesAsStated

\* The same when the scan wrote into a directory that held no page files.
ScanIntoEmptyDir == (ScanSucceeded /\ calc.fresh) => PagesAsStated

\* One video was scanned into a directory that held video_2.json: the file is
\* in video_1.json and in video_2.json, and TotalPages is 1.
C37_Counterexample ==
  /\ ScanSucceeded
  /\ calc.walk = <<"video">>
  /\ calc.out[<<"video", 1>>] = <<1>> /\ calc.out[<<"video", 2>>] = <<1>>
  /\ calc.meta["video"].TotalPages = 1

====
